---------------------------- MODULE Spec2Model ----------------------------
(***************************************************************************)
(* Vocabulary flashcards: the cache-backed document store.                 *)
(*                                                                         *)
(* ApiManager (the JSONBin client and the word operations) over            *)
(* StorageManager (localStorage).  The remote bin is one JSON document;    *)
(* every operation reads it whole, changes the array in memory and PUTs    *)
(* it back whole.  JavaScript runs one task at a time, so an async         *)
(* function is atomic between two network waits: every action below is    *)
(* the code that runs from one network event (or call) to the next wait.   *)
(*                                                                         *)
(* Text is a sequence of one-character strings, so that split(',') and     *)
(* trim() are computed and not assumed.                                    *)
(***************************************************************************)
EXTENDS Integers, Sequences, FiniteSets

(***************************************************************************)
(* Bounds of the model and constants of the program.                       *)
(***************************************************************************)
\* how many words the add form may be submitted for in a run
MaxFormWords == 3

\* how many ids generateId hands out in a run (so: how many words are added)
MaxIds == 3

\* the days the clock runs through
MaxDay == 3

\* the longest text passed for a list field
MaxLen == 3

\* how many days navigateDate goes back from today in a run
MaxBack == 2

\* request(url, options, retries = 2)
Retries == 2

\* AdminApp.DAILY_LIMIT, and the default of isDailyLimitReached
DAILY_LIMIT == 5

\* call frames of async operations that may be in flight at the same time
Procs == {"p1", "p2"}

\* calendar days (YYYY-MM-DD strings); Today is getDateString(new Date())
Dates == {"d1", "d2"}
Today == "d2"

\* the value of a property that the caller's object does not have
Undefined == "undefined"

(***************************************************************************)
(* Text helpers: String.prototype.trim and String.prototype.split(',').    *)
(***************************************************************************)
RECURSIVE TrimLeft(_)
TrimLeft(s) ==
    IF s # <<>> /\ Head(s) = " " THEN TrimLeft(Tail(s)) ELSE s

RECURSIVE TrimRight(_)
TrimRight(s) ==
    IF s # <<>> /\ s[Len(s)] = " " THEN TrimRight(SubSeq(s, 1, Len(s) - 1)) ELSE s

Trim(s) == TrimRight(TrimLeft(s))

\* s.split(','): the pieces between commas; "" splits into one empty piece
RECURSIVE SplitComma(_, _, _)
SplitComma(s, cur, acc) ==
    IF s = <<>> THEN Append(acc, cur)
    ELSE IF Head(s) = "," THEN SplitComma(Tail(s), <<>>, Append(acc, cur))
    ELSE SplitComma(Tail(s), Append(cur, Head(s)), acc)

Split(s) == SplitComma(s, <<>>, <<>>)

MapTrim(s) == [i \in 1..Len(s) |-> Trim(s[i])]

\* values a caller may pass for a list field
Str(s) == [t |-> "string", v |-> s]
Arr(a) == [t |-> "array", v |-> a]
NoValue == [t |-> "undefined", v |-> <<>>]

\* ApiManager.parseArrayField
ParseArrayField(field) ==
    IF field.t = "array"
        THEN LET Keep(item) == item # <<>> /\ Trim(item) # <<>>
             IN  SelectSeq(field.v, Keep)
    ELSE IF field.t = "string" /\ Trim(field.v) # <<>>
        THEN LET NonEmpty(item) == item # <<>>
             IN  SelectSeq(MapTrim(Split(field.v)), NonEmpty)
    ELSE <<>>

(***************************************************************************)
(* Words and the pure parts of the word operations.                        *)
(***************************************************************************)
ListFields == {"banglaMeanings", "synonyms", "antonyms"}

\* obj.f, Undefined when the object has no such property
Get(obj, f) == IF f \in DOMAIN obj THEN obj[f] ELSE Undefined

\* obj.f for a list field
GetList(obj, f) == IF f \in DOMAIN obj THEN obj[f] ELSE NoValue

\* x || ''
OrEmpty(x) == IF x = Undefined THEN "" ELSE x

\* allWords.filter(word => word.date === dateString)
FilterByDate(allWords, dateString) ==
    LET OfDate(w) == w.date = dateString
    IN  SelectSeq(allWords, OfDate)

\* ApiManager.getNextWordNumber
GetNextWordNumber(allWords, date) == Len(FilterByDate(allWords, date)) + 1

\* the object literal newWord of ApiManager.addWord
NewWord(wordData, allWords, id, now) ==
    [id             |-> id,
     date           |-> IF Get(wordData, "date") \in {Undefined, ""}
                            THEN Today ELSE wordData.date,
     wordNumber     |-> GetNextWordNumber(allWords, Get(wordData, "date")),
     english        |-> Get(wordData, "english"),
     ipa            |-> OrEmpty(Get(wordData, "ipa")),
     context        |-> OrEmpty(Get(wordData, "context")),
     meaning        |-> OrEmpty(Get(wordData, "meaning")),
     banglaMeanings |-> ParseArrayField(GetList(wordData, "banglaMeanings")),
     synonyms       |-> ParseArrayField(GetList(wordData, "synonyms")),
     antonyms       |-> ParseArrayField(GetList(wordData, "antonyms")),
     isLearned      |-> FALSE,
     createdAt      |-> now]

\* allWords.findIndex(w => w.id === wordId); 0 stands for -1
RECURSIVE FindIndexFrom(_, _, _)
FindIndexFrom(allWords, wordId, i) ==
    IF i > Len(allWords) THEN 0
    ELSE IF allWords[i].id = wordId THEN i
    ELSE FindIndexFrom(allWords, wordId, i + 1)

FindIndex(allWords, wordId) == FindIndexFrom(allWords, wordId, 1)

\* a merge that parses the list fields of the patch even when it has none
ApplyUpdatesParsesAll(word, updates, now) ==
    [f \in DOMAIN word \cup DOMAIN updates \cup ListFields
                       \cup {"updatedAt"} |->
        IF f = "updatedAt" THEN now
        ELSE IF f \in ListFields THEN ParseArrayField(GetList(updates, f))
        ELSE IF f \in DOMAIN updates THEN updates[f]
        ELSE word[f]]

\* { ...word, ...updates, banglaMeanings: .., synonyms: .., antonyms: .. }
\* of ApiManager.updateWord
ApplyUpdates(word, updates, now) ==
    [f \in DOMAIN word \cup DOMAIN updates \cup ListFields
                       \cup {"updatedAt"} |->
        IF f = "updatedAt" THEN now
        ELSE IF f \in ListFields
            THEN IF f \in DOMAIN updates /\ updates[f].t # "undefined"
                     THEN ParseArrayField(updates[f])
                     ELSE Get(word, f)
        ELSE IF f \in DOMAIN updates THEN updates[f]
        ELSE word[f]]

\* allWords.filter(w => w.id !== wordId)
WithoutId(allWords, wordId) ==
    LET Other(w) == w.id # wordId
    IN  SelectSeq(allWords, Other)

\* the forEach of ApiManager.deleteWord: number++ over the words of the date
RECURSIVE RenumberFrom(_, _, _)
RenumberFrom(ws, date, number) ==
    IF ws = <<>> THEN <<>>
    ELSE IF Head(ws).date = date
        THEN <<[Head(ws) EXCEPT !.wordNumber = number]>>
                 \o RenumberFrom(Tail(ws), date, number + 1)
    ELSE <<Head(ws)>> \o RenumberFrom(Tail(ws), date, number)

\* a renumbering that runs over the words of every date
RenumberEveryDate(filteredWords, date) ==
    [i \in 1..Len(filteredWords) |->
        [filteredWords[i] EXCEPT !.wordNumber = i]]

Renumber(filteredWords, date) == RenumberFrom(filteredWords, date, 1)

(***************************************************************************)
(* The remote document: { words: [...], meta: { totalWords, ... } }.       *)
(***************************************************************************)
\* the body of the PUT of saveAllWords
Document(ws) == [words |-> ws, meta |-> [totalWords |-> Len(ws)]]

\* a bin set up by hand that holds no words array
BareDocument == [meta |-> [totalWords |-> 0]]

\* result.record?.words || []
RecordWords(record) == IF "words" \in DOMAIN record THEN record.words ELSE <<>>

(***************************************************************************)
(* Inputs of the operations.                                               *)
(***************************************************************************)
\* what the add form sends for "a, b ,c", and a caller that leaves
\* properties out (addWord takes today's date when none is given) and
\* passes a list where the form passes text
FormWordData ==
    [date |-> "d1", english |-> "cat", ipa |-> "", context |-> "",
     meaning |-> "",
     banglaMeanings |-> Str(<<"a", ",", " ", "b", " ", ",", "c">>),
     synonyms |-> Str(<<" ">>),
     antonyms |-> Str(<<>>)]

WordInputs ==
    { FormWordData,
      [english |-> "owl", meaning |-> "bird",
       synonyms |-> Arr(<< <<"x">>, <<" ">>, <<"y">> >>)] }

\* the ids updateWord is called with: the first word added, and an id that
\* no word has
UpdateIds == {1, MaxIds + 1}

\* patches of updateWord: a text field and a list field are given, the
\* other fields are left out
WordUpdates ==
    { [english |-> "kitten", synonyms |-> Str(<<"x", ",", "y">>)] }

\* patches a caller of updateWord may pass: those of the edit form, a patch
\* that leaves the list fields out, and a patch with the id, the date and
\* the creation time of another word
ApiWordUpdates ==
    WordUpdates \cup
    { [meaning |-> "pet"],
      [id |-> 2, date |-> "d2", createdAt |-> 1] }

\* limits asked of isDailyLimitReached
Limits == {2, DAILY_LIMIT}

\* credentials a settings form or a caller may store
ApiKeys == {"", "key"}
BinIds == {"", "bin"}

\* how an attempt of fetch() fails: no network, a status that is not ok,
\* a cancellation
Errors == {"TypeError", "HttpError", "AbortError"}

(***************************************************************************)
(* State.                                                                  *)
(***************************************************************************)
VARIABLES
    remote,       \* the document the bin holds
    apiKey,       \* localStorage vocab_api_key
    binId,        \* localStorage vocab_bin_id
    localWords,   \* localStorage vocab_local_words, as getLocalWords reads it
    nextId,       \* the ids generateId has handed out so far, plus one
    call,         \* the frame of each call: where it waits and its locals
    lastPut,      \* the pending call whose PUT the bin applied last
    raced,        \* two addWord calls were both between fetch and save
    ui,           \* the admin page of each tab: its handler and its screen
    clock,        \* the day new Date() falls on
    streakData,   \* localStorage vocab_streak_data: nothing, or one record
    learnedWords, \* localStorage vocab_learned_words: the ids, in order
    adminPassword, \* localStorage vocab_admin_password: nothing, or one hash
    sync,         \* the synchronous call made last and what it returned
    zone,         \* the hour of the day new Date() falls in, and the offset
                  \* of local time from UTC, both in hours
    app,          \* the main page (App): its state and what it displays
    card,         \* FlashcardManager: its state and the card element
    admin         \* the admin page (AdminApp): its date, session and pages

\* what the calls of ApiManager and the handlers of the admin page leave
\* alone
localVars == <<clock, streakData, learnedWords, adminPassword, sync>>

\* the time of day, the time zone and the pages outside the add form
pageVars == <<zone, app, card, admin>>

vars ==
    <<remote, apiKey, binId, localWords, nextId, call, lastPut, raced, ui,
      clock, streakData, learnedWords, adminPassword, sync,
      zone, app, card, admin>>

\* new Date().toISOString(): the runs of the model happen within one
\* reading of the clock, as they happen within one day (Today)
Now == 0

NoRet == [t |-> "none", v |-> 0]

\* no synchronous call has been made
NoSync == [fn |-> "none", arg |-> <<>>, ret |-> NoRet]

\* the first day of the model; day 0 stands for the null of lastActiveDate
FirstDay == 1
NullDate == 0

\* the other keys of localStorage are not set, the clock is at its first
\* day
InitLocal ==
    /\ clock = FirstDay
    /\ streakData = <<>>
    /\ learnedWords = <<>>
    /\ adminPassword = <<>>
    /\ sync = NoSync

(***************************************************************************)
(* Dates.  An instant is a number of hours; the UTC day of an instant is   *)
(* the whole days in it, its local day the whole days after the offset of  *)
(* the zone is added.  clock is the UTC day of new Date().                 *)
(***************************************************************************)
\* hours in a day (86400000 ms)
DayHours == 24

\* new Date()
NowAt(day, z) == DayHours * day + z.hour

\* the calendar day an instant falls on, in UTC and in local time
UtcDay(t) == t \div DayHours
LocalDay(t, z) == (t + z.offset) \div DayHours

\* date.setHours(0, 0, 0, 0): midnight of the local day of t
SetHoursZero(t, z) == DayHours * LocalDay(t, z) - z.offset

\* the YYYY-MM-DD string of a day: FirstDay is Today
DateNames == <<"d-2", "d-1", "d0", "d1", "d2", "d3", "d4">>
DateName(day) == DateNames[day + 4]

\* getDateString(date): date.toISOString().split('T')[0]
GetDateString(t) == DateName(UtcDay(t))

\* noon in UTC
Noon == [hour |-> 12, offset |-> 0]

\* FlashcardManager, as declared, and the card element: flipped and
\* swiping are its classes, shown is the position of the word it displays
\* (0: none yet), touch is "down" from touchstart and "moved" from
\* touchmove until touchend
NoCards ==
    [words |-> <<>>, currentIndex |-> 0, isFlipped |-> FALSE,
     touchStartX |-> 0, touchStartY |-> 0, touchEndX |-> 0, touchEndY |-> 0,
     isSwiping |-> FALSE,
     flipped |-> FALSE, swiping |-> "none", shown |-> 0, touch |-> "none"]

\* App as declared at instant t: currentDate is new Date(); nothing is
\* displayed yet, no handler runs (run[p] is "idle", or what run p awaits).
\* loading is the display of loadingState, view the one of emptyState and
\* flashcardScene that is displayed, status the connection indicator,
\* testing the disabled testConnectionBtn, asked the direction navigateDate
\* was called with last, saved the credentials that were stored when the
\* connection test began
NewApp(t) ==
    [currentDate |-> t, isLoading |-> FALSE, loading |-> FALSE,
     view |-> "none", status |-> "none", toast |-> "none",
     testing |-> FALSE, asked |-> 0, saved |-> <<"", "">>,
     run |-> [p \in Procs |-> "idle"]]

\* AdminApp as declared at instant t, before init: the session is not
\* logged in (loggedIn is the item admin_logged_in of sessionStorage),
\* neither page is displayed yet; entered is the value of passwordInput,
\* error the class 'show' of loginError, status the connection indicator
NewAdmin(t) ==
    [currentDate |-> t, loggedIn |-> FALSE, page |-> "none",
     status |-> "none", entered |-> "", error |-> FALSE, asked |-> 0]

\* the pages as loaded at instant NowAt(day, z)
PagesAt(day, z) ==
    /\ zone = z
    /\ app = NewApp(NowAt(day, z))
    /\ card = NoCards
    /\ admin = NewAdmin(NowAt(day, z))

InitPages == PagesAt(FirstDay, Noon)

NoOut == [GET |-> "none", PUT |-> "none", POST |-> "none"]
Methods == {"GET", "PUT", "POST"}
NoOp == [kind |-> "none", wordData |-> <<>>, wordId |-> 0, updates |-> <<>>,
         dateString |-> Undefined, limit |-> 0]
NoPrev == [kind |-> "none", word |-> <<>>, date |-> Undefined, n |-> 0,
           known |-> FALSE]

\* a frame: pc is "idle", "GET", "PUT", "POST" (a request is awaited) or
\* "done" (the promise is settled with ret)
IdleFrame ==
    [pc      |-> "idle",
     op      |-> NoOp,
     fetched |-> <<>>,     \* what fetchAllWords returned
     words   |-> <<>>,     \* the argument of saveAllWords
     retries |-> 0,        \* the parameter retries of the pending request
     sent    |-> 0,        \* fetch() calls of the pending request so far
     out     |-> NoOut,    \* how the latest attempt of each request ended
     saveOk  |-> FALSE,    \* what saveAllWords returned
     pend    |-> NoRet,    \* what the operation returns once the save ends
     ret     |-> NoRet,    \* the settled value, or the error thrown
     quiet   |-> FALSE,    \* nothing else ran since this caller began
     ctx     |-> NoPrev]   \* the call this caller made just before

\* what the dashboard shows: the word list of the date, the two counters
NoScreen == [list |-> <<>>, today |-> 0, total |-> 0]

\* the admin page of a tab: the handler that runs (stage is "idle", or the
\* call it awaits), the toast it showed last, its local todayCount, the
\* screen, and whether the PUT of its addWord succeeded; disabled is
\* addWordBtn.disabled.  A run p of a handler acts on the screen and the
\* button of the page ui[p].tab: its own, or the one it shares with the
\* other run.  next is what the run does after updateStats or loadWordList:
\* it goes on as handleAddWord and loadDashboardData do ("list"), or it
\* ends, as the calls navigateDate makes ("end")
IdlePage(screen) ==
    [stage |-> "idle", toast |-> "none", todayCount |-> 0,
     shown |-> screen, wrote |-> "none", tab |-> "p1", disabled |-> FALSE,
     next |-> "list"]

\* every run has a page of its own
OwnPages(screen) == [p \in Procs |-> [IdlePage(screen) EXCEPT !.tab = p]]

FetchKinds == {"add", "update", "delete", "fetchAll", "byDate", "count",
               "total", "limit"}

OthersIdle(p) == \A q \in Procs \ {p} : call[q].pc = "idle"

Overlap(c) ==
    \E p \in Procs, q \in Procs :
        /\ p # q
        /\ c[p].op.kind = "add" /\ c[p].pc = "PUT"
        /\ c[q].op.kind = "add" /\ c[q].pc = "PUT"

TypeOK ==
    /\ apiKey \in ApiKeys
    /\ binId \in BinIds
    /\ nextId \in 1..(MaxIds + DAILY_LIMIT + MaxFormWords)
    /\ raced \in BOOLEAN
    /\ lastPut \in Procs \cup {"none"}
    /\ \A p \in Procs :
        /\ call[p].pc \in {"idle", "GET", "PUT", "POST", "done"}
        /\ call[p].retries \in 0..Retries
        /\ call[p].sent \in 0..(Retries + 1)
        /\ \A m \in Methods : call[p].out[m] \in {"none", "ok", "fail", "abort"}
        /\ ui[p].stage \in {"idle", "limit", "add", "count", "total", "list"}
        /\ ui[p].toast \in {"none", "limit", "added", "failed"}
        /\ ui[p].wrote \in {"none", "ok", "failed"}
        /\ ui[p].todayCount \in Nat
        /\ ui[p].shown.today \in Nat
        /\ ui[p].shown.total \in Nat
        /\ ui[p].tab \in Procs
        /\ ui[p].disabled \in BOOLEAN

Init ==
    /\ remote \in {Document(<<>>), BareDocument}
    /\ apiKey = ""
    /\ binId = ""
    /\ localWords = <<>>
    /\ nextId = 1
    /\ call = [p \in Procs |-> IdleFrame]
    /\ lastPut = "none"
    /\ raced = FALSE
    /\ ui = OwnPages(NoScreen)
    /\ InitLocal
    /\ InitPages

(***************************************************************************)
(* ApiManager.  The operators below are the synchronous stretches of the   *)
(* async functions; each yields the frame the call is left in, the value   *)
(* of vocab_local_words and the id counter.                                *)
(***************************************************************************)
Word(w) == [t |-> "word", v |-> w]
Words(ws) == [t |-> "words", v |-> ws]
Number(n) == [t |-> "number", v |-> n]
Bool(b) == [t |-> "boolean", v |-> b]
Throw(msg) == [t |-> "throw", v |-> msg]

\* a catch that retries whatever the error is
ShouldRetryAnyError(retries, error) == retries > 0

\* a catch that retries once more than the budget allows
ShouldRetryAtZero(retries, error) == retries >= 0 /\ error # "AbortError"

\* the catch of ApiManager.request: retry, or throw the error on
ShouldRetry(retries, error) == retries > 0 /\ error # "AbortError"

\* how an attempt that threw is written in the log
Outcome(error) == IF error = "AbortError" THEN "abort" ELSE "fail"

\* request: the first fetch() of a call of request(url, options)
Request(f, method) ==
    [f EXCEPT !.pc = method, !.retries = Retries, !.sent = 1]

\* request: an attempt failed and is tried again after the delay
Retry(f, error) ==
    [f EXCEPT !.out[f.pc] = Outcome(error), !.retries = @ - 1, !.sent = @ + 1]

\* the promise of the operation settles
Settle(f, cache, rv) ==
    [frame |-> [f EXCEPT !.pc = "done", !.ret = rv, !.sent = 0],
     cache |-> cache, nextId |-> nextId]

\* a local save that reports a failure
SaveLocallyFalse(f, ws, rv) ==
    [frame |-> [f EXCEPT !.pc = "done", !.words = ws, !.saveOk = FALSE,
                         !.ret = rv],
     cache |-> ws, nextId |-> nextId]

\* saveAllWords with no bin id: saveLocalWords(words); return true
SaveLocally(f, ws, rv) ==
    [frame |-> [f EXCEPT !.pc = "done", !.words = ws, !.saveOk = TRUE,
                         !.ret = rv],
     cache |-> ws, nextId |-> nextId]

\* saveAllWords up to its await: the bin id is read, the PUT is sent
SaveAllWords(f, ws, cache, rv) ==
    IF binId = ""
        THEN SaveLocally(f, ws, rv)
        ELSE [frame |-> [Request(f, "PUT") EXCEPT !.words = ws, !.pend = rv],
              cache |-> cache, nextId |-> nextId]

\* saveAllWords after the PUT succeeded: saveLocalWords(words); return true
SaveSucceeded(f) ==
    [frame |-> [f EXCEPT !.pc = "done", !.saveOk = TRUE, !.ret = f.pend,
                         !.sent = 0],
     cache |-> f.words, nextId |-> nextId]

\* a catch that leaves the cache as it was
SaveFailedKeepsCache(f) ==
    [frame |-> [f EXCEPT !.pc = "done", !.saveOk = FALSE, !.ret = f.pend,
                         !.sent = 0],
     cache |-> localWords, nextId |-> nextId]

\* a catch that throws the error on to the operation
SaveFailedThrows(f) ==
    [frame |-> [f EXCEPT !.pc = "done", !.saveOk = FALSE,
                         !.ret = Throw("save failed"), !.sent = 0],
     cache |-> f.words, nextId |-> nextId]

\* saveAllWords, its catch: saveLocalWords(words); return false
SaveFailed(f) ==
    [frame |-> [f EXCEPT !.pc = "done", !.saveOk = FALSE, !.ret = f.pend,
                         !.sent = 0],
     cache |-> f.words, nextId |-> nextId]

\* addWord after its fetch
AddWordResume(f, allWords, cache) ==
    LET newWord == NewWord(f.op.wordData, allWords, nextId, Now)
        out == SaveAllWords(f, Append(allWords, newWord), cache, Word(newWord))
    IN  [out EXCEPT !.nextId = nextId + 1]

\* an updateWord that saves the collection before it throws
UpdateWordResumeSaves(f, allWords, cache) ==
    LET index == FindIndex(allWords, f.op.wordId)
    IN  IF index = 0
            THEN SaveAllWords(f, allWords, cache, Throw("Word not found"))
            ELSE LET updated == ApplyUpdates(allWords[index], f.op.updates, Now)
                 IN  SaveAllWords(f, [allWords EXCEPT ![index] = updated],
                                  cache, Word(updated))

\* updateWord after its fetch
UpdateWordResume(f, allWords, cache) ==
    LET index == FindIndex(allWords, f.op.wordId)
    IN  IF index = 0
            THEN Settle(f, cache, Throw("Word not found"))
            ELSE LET updated == ApplyUpdates(allWords[index], f.op.updates, Now)
                 IN  SaveAllWords(f, [allWords EXCEPT ![index] = updated],
                                  cache, Word(updated))

\* deleteWord after its fetch
DeleteWordResume(f, allWords, cache) ==
    LET filteredWords == WithoutId(allWords, f.op.wordId)
    IN  IF Len(filteredWords) = Len(allWords)
            THEN Settle(f, cache, Throw("Word not found"))
            ELSE LET deletedWord == allWords[FindIndex(allWords, f.op.wordId)]
                 IN  SaveAllWords(f, Renumber(filteredWords, deletedWord.date),
                                  cache, Bool(TRUE))

\* a limit that is reached only once it is exceeded
LimitReachedAbove(count, limit) == count > limit

\* isDailyLimitReached: return count >= limit
LimitReached(count, limit) == count >= limit

AfterFetchCountsAll(f0, allWords, cache) ==
    LET f == [f0 EXCEPT !.fetched = allWords]
        kind == f.op.kind
        ofDate == FilterByDate(allWords, f.op.dateString)
    IN  CASE kind = "add" -> AddWordResume(f, allWords, cache)
          [] kind = "update" -> UpdateWordResume(f, allWords, cache)
          [] kind = "delete" -> DeleteWordResume(f, allWords, cache)
          [] kind = "fetchAll" -> Settle(f, cache, Words(allWords))
          [] kind = "byDate" -> Settle(f, cache, Words(ofDate))
          [] kind = "count" -> Settle(f, cache, Number(Len(allWords)))
          [] kind = "total" -> Settle(f, cache, Number(Len(allWords)))
          [] kind = "limit" ->
                 Settle(f, cache, Bool(LimitReached(Len(allWords), f.op.limit)))

\* the caller of fetchAllWords goes on with the words it returned
AfterFetch(f0, allWords, cache) ==
    LET f == [f0 EXCEPT !.fetched = allWords]
        kind == f.op.kind
        ofDate == FilterByDate(allWords, f.op.dateString)
    IN  CASE kind = "add" -> AddWordResume(f, allWords, cache)
          [] kind = "update" -> UpdateWordResume(f, allWords, cache)
          [] kind = "delete" -> DeleteWordResume(f, allWords, cache)
          [] kind = "fetchAll" -> Settle(f, cache, Words(allWords))
          [] kind = "byDate" -> Settle(f, cache, Words(ofDate))
          [] kind = "count" -> Settle(f, cache, Number(Len(ofDate)))
          [] kind = "total" -> Settle(f, cache, Number(Len(allWords)))
          [] kind = "limit" ->
                 Settle(f, cache, Bool(LimitReached(Len(ofDate), f.op.limit)))

\* fetchAllWords up to its await: no bin id, the cached words; else the GET
FetchAllWords(f) ==
    IF binId = ""
        THEN AfterFetch(f, localWords, localWords)
        ELSE [frame |-> Request(f, "GET"), cache |-> localWords,
              nextId |-> nextId]

\* a fetchAllWords that returns the words without caching them
FetchSucceededNoCache(f, result) ==
    LET words == RecordWords(result.record)
    IN  AfterFetch(f, words, localWords)

\* fetchAllWords after the GET succeeded: the words are cached and returned
FetchSucceeded(f, result) ==
    LET words == RecordWords(result.record)
    IN  AfterFetch(f, words, words)

\* a fetchAllWords that lets the error of the request through
FetchFailedThrows(f) == Settle(f, localWords, Throw("fetch failed"))

\* a catch that returns an empty collection
FetchFailedEmpty(f) == AfterFetch(f, <<>>, localWords)

\* fetchAllWords, its catch: return StorageManager.getLocalWords()
FetchFailed(f) == AfterFetch(f, localWords, localWords)

\* testConnection up to its await, when getApiCredentials returns bin
TestConnectionOf(f, bin) ==
    IF bin = ""
        THEN Settle(f, localWords, Bool(FALSE))
        ELSE [frame |-> Request(f, "GET"), cache |-> localWords,
              nextId |-> nextId]

TestConnectionCallUnchecked(f) ==
    [frame |-> Request(f, "GET"), cache |-> localWords, nextId |-> nextId]

\* testConnection up to its await
TestConnectionCall(f) == TestConnectionOf(f, binId)

(***************************************************************************)
(* Actions.                                                                *)
(***************************************************************************)
\* the state after a stretch of call p; a call that starts ends the quiet
\* of the other frames
ApplyFrame(p, out, doc, putBy, starting) ==
    /\ call' = [q \in Procs |->
                  IF q = p THEN out.frame
                  ELSE IF starting
                      THEN [call[q] EXCEPT !.quiet = FALSE, !.ctx = NoPrev]
                  ELSE call[q]]
    /\ localWords' = out.cache
    /\ nextId' = out.nextId
    /\ remote' = doc
    /\ lastPut' = putBy
    /\ raced' = (raced \/ Overlap(call'))
    /\ UNCHANGED localVars

\* a stretch of call p that leaves the credentials as they are
ApplyCall(p, out, doc, putBy, starting) ==
    /\ ApplyFrame(p, out, doc, putBy, starting)
    /\ UNCHANGED <<apiKey, binId>>

\* a stretch of a call that no handler of the admin page is waiting for
Apply(p, out, doc, putBy, starting) ==
    /\ ApplyCall(p, out, doc, putBy, starting)
    /\ UNCHANGED ui
    /\ UNCHANGED pageVars

\* what a caller keeps of the call that has just settled
Summary(f) ==
    IF f.quiet /\ f.op.kind = "add" /\ f.ret.t = "word"
        THEN [kind |-> "add", word |-> f.ret.v,
              date |-> Get(f.op.wordData, "date"),
              n |-> f.ctx.n, known |-> f.ctx.kind = "total"]
    ELSE IF f.quiet /\ f.op.kind = "total" /\ f.ret.t = "number"
        THEN [kind |-> "total", word |-> <<>>, date |-> Undefined,
              n |-> f.ret.v, known |-> TRUE]
    ELSE NoPrev

\* the frame of a call that starts; a caller whose call has settled may
\* make its next call at once
NewFrame(p, o) ==
    [IdleFrame EXCEPT !.op = o,
                      !.quiet = IF call[p].pc = "done" THEN call[p].quiet
                                ELSE OthersIdle(p),
                      !.ctx = IF call[p].pc = "done" THEN Summary(call[p])
                              ELSE NoPrev]

\* a call is made when no other is in flight, in the first frame
CanStart(p) ==
    /\ \A q \in Procs : call[q].pc = "idle"
    /\ p = "p1"

\* the caller of a call that has settled goes on to its next call
CanGoOn(p) ==
    /\ call[p].pc = "done"
    /\ OthersIdle(p)

\* a call of an operation that begins with fetchAllWords
Begin(p, o) == Apply(p, FetchAllWords(NewFrame(p, o)), remote, lastPut, TRUE)

Start(p, o) == CanStart(p) /\ Begin(p, o)

AddsWaiting == {q \in Procs : call[q].pc = "GET" /\ call[q].op.kind = "add"}

IdsLeft == nextId + Cardinality(AddsWaiting) <= MaxIds

AddWord(p) ==
    \E wordData \in WordInputs :
        /\ IdsLeft
        /\ Start(p, [NoOp EXCEPT !.kind = "add", !.wordData = wordData])

\* a second addWord is called while an addWord is waiting for the network
\* (another tab, or a second submit)
AddWordMeanwhile(p) ==
    \E wordData \in WordInputs :
        /\ call[p].pc = "idle"
        /\ \E q \in Procs \ {p} :
               call[q].op.kind = "add" /\ call[q].pc \in {"GET", "PUT"}
        /\ IdsLeft
        /\ Begin(p, [NoOp EXCEPT !.kind = "add", !.wordData = wordData])

\* getTotalWordCount, then addWord at once
ThenAddWord(p) ==
    \E wordData \in WordInputs :
        /\ CanGoOn(p)
        /\ call[p].op.kind = "total"
        /\ IdsLeft
        /\ Begin(p, [NoOp EXCEPT !.kind = "add", !.wordData = wordData])

\* addWord(wordData), then fetchWordsByDate(wordData.date) at once
ThenFetchWordsByDate(p) ==
    /\ CanGoOn(p)
    /\ call[p].op.kind = "add"
    /\ Get(call[p].op.wordData, "date") \in Dates
    /\ Begin(p, [NoOp EXCEPT !.kind = "byDate",
                             !.dateString = call[p].op.wordData.date])

\* addWord, then getTotalWordCount at once
ThenGetTotalWordCount(p) ==
    /\ CanGoOn(p)
    /\ call[p].op.kind = "add"
    /\ Begin(p, [NoOp EXCEPT !.kind = "total"])

UpdateWord(p) ==
    \E wordId \in UpdateIds, updates \in WordUpdates :
        Start(p, [NoOp EXCEPT !.kind = "update", !.wordId = wordId,
                              !.updates = updates])

\* updateWord called by code other than the edit form
UpdateWordWith(p) ==
    \E wordId \in UpdateIds, updates \in ApiWordUpdates :
        Start(p, [NoOp EXCEPT !.kind = "update", !.wordId = wordId,
                              !.updates = updates])

DeleteWord(p) ==
    \E wordId \in 1..(MaxIds + 1) :
        Start(p, [NoOp EXCEPT !.kind = "delete", !.wordId = wordId])

FetchAllWordsCall(p) == Start(p, [NoOp EXCEPT !.kind = "fetchAll"])

FetchWordsByDate(p) ==
    \E dateString \in Dates :
        Start(p, [NoOp EXCEPT !.kind = "byDate", !.dateString = dateString])

GetWordCountForDate(p) ==
    \E dateString \in Dates :
        Start(p, [NoOp EXCEPT !.kind = "count", !.dateString = dateString])

GetTotalWordCount(p) == Start(p, [NoOp EXCEPT !.kind = "total"])

\* isDailyLimitReached(dateString, limit = 5): the limit passed, or the
\* default
LimitParam(args) == IF args = <<>> THEN DAILY_LIMIT ELSE args[1]

IsDailyLimitReached(p) ==
    \E dateString \in Dates, args \in {<<>>} \cup {<<l>> : l \in Limits} :
        Start(p, [NoOp EXCEPT !.kind = "limit", !.dateString = dateString,
                              !.limit = LimitParam(args)])

TestConnection(p) ==
    /\ CanStart(p)
    /\ Apply(p, TestConnectionCall(NewFrame(p, [NoOp EXCEPT !.kind = "test"])),
             remote, lastPut, TRUE)

\* createBin: the POST is sent whatever the credentials are
CreateBin(p) ==
    /\ CanStart(p)
    /\ Apply(p, [frame |-> Request(NewFrame(p, [NoOp EXCEPT !.kind = "create"]),
                                   "POST"),
                 cache |-> localWords, nextId |-> nextId],
             remote, lastPut, TRUE)

\* the GET of /b/<binId>/latest is answered with the document
GetOk(p) ==
    /\ call[p].pc = "GET"
    /\ LET f == [call[p] EXCEPT !.out.GET = "ok"]
       IN  IF f.op.kind = "test"
               THEN Apply(p, Settle(f, localWords, Bool(TRUE)),
                          remote, lastPut, FALSE)
               ELSE Apply(p, FetchSucceeded(f, [record |-> remote]),
                          remote, lastPut, FALSE)

\* an attempt of the GET fails
GetFail(p) ==
    \E error \in Errors :
        /\ call[p].pc = "GET"
        /\ LET f == call[p]
               g == [f EXCEPT !.out.GET = Outcome(error)]
           IN  IF ShouldRetry(f.retries, error)
                   THEN Apply(p, [frame |-> Retry(f, error),
                                  cache |-> localWords, nextId |-> nextId],
                              remote, lastPut, FALSE)
               ELSE IF f.op.kind = "test"
                   THEN Apply(p, Settle(g, localWords, Bool(FALSE)),
                              remote, lastPut, FALSE)
               ELSE Apply(p, FetchFailed(g), remote, lastPut, FALSE)

\* the PUT of /b/<binId> is applied: the bin now holds the body sent
PutOk(p) ==
    /\ call[p].pc = "PUT"
    /\ LET f == [call[p] EXCEPT !.out.PUT = "ok"]
       IN  Apply(p, SaveSucceeded(f), Document(f.words), p, FALSE)

\* an attempt of the PUT fails
PutFail(p) ==
    \E error \in Errors :
        /\ call[p].pc = "PUT"
        /\ LET f == call[p]
               g == [f EXCEPT !.out.PUT = Outcome(error)]
           IN  IF ShouldRetry(f.retries, error)
                   THEN Apply(p, [frame |-> Retry(f, error),
                                  cache |-> localWords, nextId |-> nextId],
                              remote, lastPut, FALSE)
                   ELSE Apply(p, SaveFailed(g), remote, lastPut, FALSE)

\* the POST of /b is answered: a new bin, whose id createBin returns
PostOk(p) ==
    /\ call[p].pc = "POST"
    /\ LET f == [call[p] EXCEPT !.out.POST = "ok"]
       IN  Apply(p, Settle(f, localWords, [t |-> "id", v |-> "newbin"]),
                 remote, lastPut, FALSE)

\* an attempt of the POST fails; createBin has no catch
PostFail(p) ==
    \E error \in Errors :
        /\ call[p].pc = "POST"
        /\ LET f == call[p]
               g == [f EXCEPT !.out.POST = Outcome(error)]
           IN  IF ShouldRetry(f.retries, error)
                   THEN Apply(p, [frame |-> Retry(f, error),
                                  cache |-> localWords, nextId |-> nextId],
                              remote, lastPut, FALSE)
                   ELSE Apply(p, Settle(g, localWords, Throw(error)),
                              remote, lastPut, FALSE)

\* the caller takes the settled value; the frame is gone
Return(p) ==
    /\ call[p].pc = "done"
    /\ call' = [call EXCEPT ![p] = IdleFrame]
    /\ raced' = FALSE
    /\ lastPut' = IF lastPut = p THEN "none" ELSE lastPut
    /\ UNCHANGED <<remote, apiKey, binId, localWords, nextId, ui>>
    /\ UNCHANGED localVars
    /\ UNCHANGED pageVars

\* StorageManager.saveApiCredentials, on a device that holds none yet
SaveApiCredentials ==
    \E key \in ApiKeys, bin \in BinIds :
        /\ apiKey = "" /\ binId = ""
        /\ apiKey' = key
        /\ binId' = bin
        /\ call' = [q \in Procs |->
                      [call[q] EXCEPT !.quiet = FALSE, !.ctx = NoPrev]]
        /\ UNCHANGED <<remote, localWords, nextId, lastPut, raced, ui>>
        /\ UNCHANGED localVars
        /\ UNCHANGED pageVars

Next ==
    \/ SaveApiCredentials
    \/ \E p \in Procs :
        \/ AddWord(p)
        \/ UpdateWord(p)
        \/ DeleteWord(p)
        \/ FetchAllWordsCall(p)
        \/ FetchWordsByDate(p)
        \/ GetWordCountForDate(p)
        \/ GetTotalWordCount(p)
        \/ IsDailyLimitReached(p)
        \/ ThenAddWord(p)
        \/ ThenFetchWordsByDate(p)
        \/ ThenGetTotalWordCount(p)
        \/ TestConnection(p)
        \/ CreateBin(p)
        \/ GetOk(p)
        \/ GetFail(p)
        \/ PutOk(p)
        \/ PutFail(p)
        \/ PostOk(p)
        \/ PostFail(p)
        \/ Return(p)

Spec == Init /\ [][Next]_vars

\* addWord calls that may overlap, and reads of the collection
NextRace ==
    \/ SaveApiCredentials
    \/ \E p \in Procs :
        \/ AddWord(p)
        \/ AddWordMeanwhile(p)
        \/ FetchAllWordsCall(p)
        \/ GetOk(p)
        \/ GetFail(p)
        \/ PutOk(p)
        \/ PutFail(p)
        \/ Return(p)

SpecRace == Init /\ [][NextRace]_vars

\* words are added and updated, with any patch
NextPatch ==
    \/ SaveApiCredentials
    \/ \E p \in Procs :
        \/ AddWord(p)
        \/ UpdateWordWith(p)
        \/ FetchAllWordsCall(p)
        \/ GetOk(p)
        \/ GetFail(p)
        \/ PutOk(p)
        \/ PutFail(p)
        \/ Return(p)

SpecPatch == Init /\ [][NextPatch]_vars

(***************************************************************************)
(* AdminApp: the add form.  handleAddWord awaits isDailyLimitReached,      *)
(* addWord, then updateStats (getWordCountForDate, getTotalWordCount) and  *)
(* loadWordList (fetchWordsByDate); each action below is the stretch of    *)
(* the handler from the call that settled to the next call it awaits.      *)
(***************************************************************************)
\* getDateString(this.currentDate): the date the dashboard is set to
FormDate == FormWordData.date

\* the collection after k submissions of the add form that all succeeded
RECURSIVE Seeded(_)
Seeded(k) ==
    IF k = 0 THEN <<>>
    ELSE LET ws == Seeded(k - 1)
         IN  Append(ws, NewWord(FormWordData, ws, k, Now))

\* what loadDashboardData shows of a collection
ScreenOf(ws) ==
    [list |-> FilterByDate(ws, FormDate),
     today |-> Len(FilterByDate(ws, FormDate)),
     total |-> Len(ws)]

\* the dashboard is open on a collection to which the form has added all
\* but one of the words of the daily limit, with or without a bin
InitDashboard(pages) ==
    /\ \E bin \in BinIds :
           /\ binId = bin
           /\ apiKey = IF bin = "" THEN "" ELSE "key"
           /\ remote = IF bin = "" THEN Document(<<>>)
                       ELSE Document(Seeded(DAILY_LIMIT - 1))
    /\ localWords = Seeded(DAILY_LIMIT - 1)
    /\ nextId = DAILY_LIMIT
    /\ call = [p \in Procs |-> IdleFrame]
    /\ lastPut = "none"
    /\ raced = FALSE
    /\ ui = pages
    /\ InitLocal
    /\ InitPages

\* each run of the handler has its own tab
InitAdmin == InitDashboard(OwnPages(ScreenOf(Seeded(DAILY_LIMIT - 1))))

\* one dashboard: both runs of handleAddWord act on the same page
InitPanel ==
    InitDashboard([p \in Procs |-> IdlePage(ScreenOf(Seeded(DAILY_LIMIT - 1)))])

\* a handler run p makes its next call; pages is the admin pages then
AwaitCall(p, o, pages) ==
    /\ ApplyCall(p, FetchAllWords(NewFrame(p, o)), remote,
                 IF lastPut = p THEN "none" ELSE lastPut, TRUE)
    /\ ui' = pages

\* a run of the add form or of the dashboard's loading makes its next call
Await(p, o, pages) ==
    /\ AwaitCall(p, o, pages)
    /\ UNCHANGED pageVars

\* a handler run p ends
Finish(p, pages) ==
    /\ ui' = [pages EXCEPT ![p].stage = "idle", ![p].next = "list"]
    /\ call' = [call EXCEPT ![p] = IdleFrame]
    /\ lastPut' = IF lastPut = p THEN "none" ELSE lastPut
    /\ UNCHANGED <<remote, apiKey, binId, localWords, nextId, raced>>
    /\ UNCHANGED localVars
    /\ UNCHANGED pageVars

\* submissions that have not yet taken their id
FormsWaiting ==
    {q \in Procs : \/ ui[q].stage = "limit"
                   \/ ui[q].stage = "add" /\ call[q].pc = "GET"}

FormIdsLeft ==
    nextId + Cardinality(FormsWaiting) < DAILY_LIMIT + MaxFormWords

\* handleAddWord up to await ApiManager.isDailyLimitReached(today, limit);
\* the form is not submitted through a disabled button
SubmitAddForm(p) ==
    /\ ui[p].stage = "idle"
    /\ call[p].pc = "idle"
    /\ ~ui[ui[p].tab].disabled
    /\ FormIdsLeft
    /\ Await(p, [NoOp EXCEPT !.kind = "limit", !.dateString = FormDate,
                             !.limit = DAILY_LIMIT],
             [ui EXCEPT ![p].stage = "limit", ![p].toast = "none",
                        ![p].wrote = "none"])

\* the form is submitted while no handler runs
HandleAddWord(p) ==
    /\ \A q \in Procs : ui[q].stage = "idle"
    /\ p = "p1"
    /\ SubmitAddForm(p)

\* the form is submitted, whatever the other run does
HandleAddWordInTab(p) == SubmitAddForm(p)

RefusesNever(isLimitReached) == FALSE

\* if (isLimitReached) { showToast(...); return; }
Refuses(isLimitReached) == isLimitReached

\* handleAddWord from the limit check to await ApiManager.addWord(wordData):
\* the button is disabled once the check has passed
HandleAddWordChecked(p) ==
    /\ ui[p].stage = "limit"
    /\ call[p].pc = "done"
    /\ IF Refuses(call[p].ret.v)
           THEN Finish(p, [ui EXCEPT ![p].toast = "limit"])
           ELSE Await(p, [NoOp EXCEPT !.kind = "add",
                                      !.wordData = FormWordData],
                      [ui EXCEPT ![p].stage = "add",
                                 ![ui[p].tab].disabled = TRUE])

\* handleAddWord after addWord: the toast, then updateStats up to
\* await ApiManager.getWordCountForDate(today); the catch when it threw,
\* and the button enabled again
HandleAddWordAdded(p) ==
    /\ ui[p].stage = "add"
    /\ call[p].pc = "done"
    /\ IF call[p].ret.t = "throw"
           THEN Finish(p, [ui EXCEPT ![p].toast = "failed",
                                     ![ui[p].tab].disabled = FALSE])
           ELSE Await(p, [NoOp EXCEPT !.kind = "count",
                                      !.dateString = FormDate],
                      [ui EXCEPT ![p].stage = "count", ![p].toast = "added",
                                 ![p].wrote = IF call[p].saveOk
                                                  THEN "ok" ELSE "failed"])

\* updateStats up to await ApiManager.getTotalWordCount()
UpdateStatsCounted(p) ==
    /\ ui[p].stage = "count"
    /\ call[p].pc = "done"
    /\ Await(p, [NoOp EXCEPT !.kind = "total"],
             [ui EXCEPT ![p].stage = "total",
                        ![p].todayCount = call[p].ret.v])

\* updateStats to its end, then loadWordList up to
\* await ApiManager.fetchWordsByDate(dateString)
UpdateStatsTotalled(p) ==
    /\ ui[p].stage = "total"
    /\ call[p].pc = "done"
    /\ LET counted == [ui EXCEPT ![ui[p].tab].shown.today = ui[p].todayCount,
                                 ![ui[p].tab].shown.total = call[p].ret.v]
       IN  IF ui[p].next = "list"
               THEN Await(p, [NoOp EXCEPT !.kind = "byDate",
                                          !.dateString = FormDate],
                          [counted EXCEPT ![p].stage = "list"])
               ELSE Finish(p, [counted EXCEPT ![p].todayCount = 0])

\* loadWordList to its end, and the end of handleAddWord: the button is
\* enabled again
LoadWordListLoaded(p) ==
    /\ ui[p].stage = "list"
    /\ call[p].pc = "done"
    /\ Finish(p, [ui EXCEPT ![p].todayCount = 0,
                            ![ui[p].tab].shown.list = call[p].ret.v,
                            ![ui[p].tab].disabled =
                                IF ui[p].next = "list" THEN FALSE ELSE @])

\* the add form of one dashboard, a submission at a time
NextAdmin ==
    \E p \in Procs :
        \/ HandleAddWord(p)
        \/ HandleAddWordChecked(p)
        \/ HandleAddWordAdded(p)
        \/ UpdateStatsCounted(p)
        \/ UpdateStatsTotalled(p)
        \/ LoadWordListLoaded(p)
        \/ GetOk(p)
        \/ GetFail(p)
        \/ PutOk(p)
        \/ PutFail(p)

SpecAdmin == InitAdmin /\ [][NextAdmin]_vars

\* two runs of the add form that may overlap, on a bin that takes every
\* write it is sent (a read may fail, and then the run reads the cache)
NextTabs ==
    \E p \in Procs :
        \/ HandleAddWordInTab(p)
        \/ HandleAddWordChecked(p)
        \/ HandleAddWordAdded(p)
        \/ UpdateStatsCounted(p)
        \/ UpdateStatsTotalled(p)
        \/ LoadWordListLoaded(p)
        \/ GetOk(p)
        \/ GetFail(p)
        \/ PutOk(p)

\* the add forms of two tabs
SpecTabs == InitAdmin /\ [][NextTabs]_vars

\* the add form of one dashboard, submitted whenever its button allows
SpecPanel == InitPanel /\ [][NextTabs]_vars


(***************************************************************************)
(* StorageManager: the synchronous operations on the keys of localStorage. *)
(* localStorage.setItem throws when the quota is exceeded; each operation  *)
(* below is one action, with the writes that succeed chosen by \E.         *)
(***************************************************************************)
\* the variables of ApiManager and of the pages
apiVars == <<remote, nextId, call, lastPut, raced, ui, zone, app, card, admin>>

\* the synchronous call fn(arg) has returned rv, or thrown it
Returns(fn, arg, rv) == sync' = [fn |-> fn, arg |-> arg, ret |-> rv]

\* undefined, the value of a call that returns nothing
Nothing == [t |-> "undefined", v |-> 0]

\* what setItem throws when the quota is exceeded
QuotaExceeded == Throw("QuotaExceededError")

\* midnight passes
Tick ==
    /\ clock < MaxDay
    /\ clock' = clock + 1
    /\ UNCHANGED <<streakData, learnedWords, adminPassword, sync>>
    /\ UNCHANGED <<apiKey, binId, localWords>>
    /\ UNCHANGED apiVars

\* StorageManager.getStreakData
GetStreakData ==
    IF streakData # <<>> THEN streakData[1]
    ELSE [currentStreak |-> 0, lastActiveDate |-> NullDate]

\* the day before the day of Date.now()
DayBefore(day) == day - 1

\* newStreak of StorageManager.updateStreak
NewStreak(data, yesterday) ==
    IF data.lastActiveDate = yesterday THEN data.currentStreak + 1
    ELSE IF data.lastActiveDate = NullDate THEN 1
    ELSE 1

\* StorageManager.updateStreak: today is read from new Date(), yesterday
\* from a later Date.now(), which may fall on the next day
UpdateStreak ==
    /\ LET today == clock
           data == GetStreakData
       IN  IF data.lastActiveDate = today
               THEN /\ Returns("updateStreak", <<>>, Number(data.currentStreak))
                    /\ UNCHANGED <<clock, streakData>>
               ELSE \E late \in {0, 1}, stored \in BOOLEAN :
                        LET newStreak ==
                                NewStreak(data, DayBefore(clock + late))
                        IN  /\ clock + late <= MaxDay
                            /\ clock' = clock + late
                            /\ streakData' =
                                   IF stored
                                       THEN << [currentStreak |-> newStreak,
                                                lastActiveDate |-> today] >>
                                       ELSE streakData
                            /\ Returns("updateStreak", <<>>, Number(newStreak))
    /\ UNCHANGED <<learnedWords, adminPassword>>
    /\ UNCHANGED <<apiKey, binId, localWords>>
    /\ UNCHANGED apiVars

\* the ids of the words a visitor has on the flashcards
LearnIds == {1, 2}

\* StorageManager.isWordLearned: getLearnedWords().has(wordId)
IsWordLearned(wordId) ==
    \E i \in 1..Len(learnedWords) : learnedWords[i] = wordId

\* [...learned] after learned.add(wordId)
MarkedOnly(learned, wordId) == <<wordId>>

Marked(learned, wordId) ==
    IF \E i \in 1..Len(learned) : learned[i] = wordId
        THEN learned ELSE Append(learned, wordId)

\* [...learned] after learned.delete(wordId)
Unmarked(learned, wordId) ==
    LET Other(id) == id # wordId
    IN  SelectSeq(learned, Other)

\* setItem(LEARNED_WORDS, ...) inside try/catch
StoreLearned(learned, stored) ==
    learnedWords' = IF stored THEN learned ELSE learnedWords

LearnedFrame ==
    /\ UNCHANGED <<clock, streakData, adminPassword>>
    /\ UNCHANGED <<apiKey, binId, localWords>>
    /\ UNCHANGED apiVars

\* StorageManager.markWordAsLearned
MarkWordAsLearned ==
    \E wordId \in LearnIds, stored \in BOOLEAN :
        /\ StoreLearned(Marked(learnedWords, wordId), stored)
        /\ Returns("markWordAsLearned", <<wordId>>, Nothing)
        /\ LearnedFrame

\* StorageManager.unmarkWordAsLearned
UnmarkWordAsLearned ==
    \E wordId \in LearnIds, stored \in BOOLEAN :
        /\ StoreLearned(Unmarked(learnedWords, wordId), stored)
        /\ Returns("unmarkWordAsLearned", <<wordId>>, Nothing)
        /\ LearnedFrame

\* FlashcardManager.toggleLearned on the card that shows the word wordId
ToggleLearned ==
    \E wordId \in LearnIds, stored \in BOOLEAN :
        /\ IF IsWordLearned(wordId)
               THEN StoreLearned(Unmarked(learnedWords, wordId), stored)
               ELSE StoreLearned(Marked(learnedWords, wordId), stored)
        /\ Returns("toggleLearned", <<wordId>>, Nothing)
        /\ LearnedFrame

\* StorageManager.isWordLearned, called
IsWordLearnedCall ==
    \E wordId \in LearnIds :
        /\ Returns("isWordLearned", <<wordId>>, Bool(IsWordLearned(wordId)))
        /\ UNCHANGED learnedWords
        /\ LearnedFrame

\* passwords an administrator may set, and btoa of each
Passwords == {"", "admin123", "secret"}
Btoa ==
    [password \in Passwords |->
        CASE password = "" -> ""
          [] password = "admin123" -> "YWRtaW4xMjM="
          [] password = "secret" -> "c2VjcmV0"]

\* StorageManager.setAdminPassword: setItem is not inside a try
SetAdminPassword ==
    \E password \in Passwords, stored \in BOOLEAN :
        /\ adminPassword' = IF stored THEN <<Btoa[password]>> ELSE adminPassword
        /\ Returns("setAdminPassword", <<password>>,
                   IF stored THEN Nothing ELSE QuotaExceeded)
        /\ UNCHANGED <<clock, streakData, learnedWords>>
        /\ UNCHANGED <<apiKey, binId, localWords>>
        /\ UNCHANGED apiVars

\* StorageManager.verifyPassword(password): !stored holds of null and of ""
VerifyPassword(password) ==
    IF adminPassword = <<>> \/ adminPassword[1] = ""
        THEN password = "admin123"
        ELSE adminPassword[1] = Btoa[password]

VerifyPasswordCall ==
    \E password \in Passwords :
        /\ Returns("verifyPassword", <<password>>,
                   Bool(VerifyPassword(password)))
        /\ UNCHANGED <<clock, streakData, learnedWords, adminPassword>>
        /\ UNCHANGED <<apiKey, binId, localWords>>
        /\ UNCHANGED apiVars

\* StorageManager.saveApiCredentials: two setItem calls inside one try
StoreApiCredentials ==
    \E key \in ApiKeys, bin \in BinIds, written \in 0..2 :
        /\ apiKey' = IF written >= 1 THEN key ELSE apiKey
        /\ binId' = IF written = 2 THEN bin ELSE binId
        /\ Returns("saveApiCredentials", <<key, bin>>, Bool(written = 2))
        /\ UNCHANGED <<localWords, clock, streakData, learnedWords,
                       adminPassword>>
        /\ UNCHANGED apiVars

\* StorageManager.saveLocalWords
StoreLocalWords ==
    \E k \in 0..1, stored \in BOOLEAN :
        /\ localWords' = IF stored THEN Seeded(k) ELSE localWords
        /\ Returns("saveLocalWords", <<k>>, Nothing)
        /\ UNCHANGED <<apiKey, binId, clock, streakData, learnedWords,
                       adminPassword>>
        /\ UNCHANGED apiVars

NextStorage ==
    \/ Tick
    \/ UpdateStreak
    \/ MarkWordAsLearned
    \/ UnmarkWordAsLearned
    \/ ToggleLearned
    \/ IsWordLearnedCall
    \/ SetAdminPassword
    \/ VerifyPasswordCall
    \/ StoreApiCredentials
    \/ StoreLocalWords

SpecStorage == Init /\ [][NextStorage]_vars

(***************************************************************************)
(* ApiManager.parseArrayField on its own: the field is drawn from the      *)
(* texts and the lists a caller may pass.                                  *)
(***************************************************************************)
\* the characters of a field: a letter, a blank, the separator
Chars == {"a", " ", ","}

\* the texts of at most n characters
Texts(n) == UNION {[1..k -> Chars] : k \in 0..n}

\* the entries of a list: texts of at most two characters without separator
Entries == {e \in Texts(2) : \A i \in 1..Len(e) : e[i] # ","}

\* what a caller passes for a list field: a text, a list of at most two
\* entries, or nothing
Fields ==
    {Str(s) : s \in Texts(MaxLen)}
        \cup {Arr(a) : a \in UNION {[1..k -> Entries] : k \in 0..2}}
        \cup {NoValue}

List(l) == [t |-> "list", v |-> l]

\* the state after construction, and the field the caller is about to pass
InitParse ==
    /\ remote = Document(<<>>)
    /\ apiKey = ""
    /\ binId = ""
    /\ localWords = <<>>
    /\ nextId = 1
    /\ call = [p \in Procs |-> IdleFrame]
    /\ lastPut = "none"
    /\ raced = FALSE
    /\ ui = OwnPages(NoScreen)
    /\ clock = FirstDay
    /\ streakData = <<>>
    /\ learnedWords = <<>>
    /\ adminPassword = <<>>
    /\ \E field \in Fields :
           sync = [fn |-> "none", arg |-> <<field>>, ret |-> NoRet]
    /\ InitPages

\* ApiManager.parseArrayField(field)
ParseArrayFieldCall ==
    /\ sync.fn = "none"
    /\ Returns("parseArrayField", sync.arg, List(ParseArrayField(sync.arg[1])))
    /\ UNCHANGED <<clock, streakData, learnedWords, adminPassword>>
    /\ UNCHANGED <<apiKey, binId, localWords>>
    /\ UNCHANGED apiVars

NextParse == ParseArrayFieldCall

SpecParse == InitParse /\ [][NextParse]_vars

(***************************************************************************)
(* FlashcardManager: the card that is displayed, its flip, the swipes.     *)
(* Each function is an operator from the state before to the state after;  *)
(* indices count from 0 as in the code.                                    *)
(***************************************************************************)
\* swipeThreshold
swipeThreshold == 50

\* displayCard(index)
DisplayCard(c, index) ==
    IF index < 0 \/ index >= Len(c.words) THEN c
    ELSE [c EXCEPT !.flipped = IF c.isFlipped THEN FALSE ELSE @,
                   !.isFlipped = FALSE,
                   !.shown = index + 1]

\* loadWords(words)
LoadWords(c, words) ==
    LET loaded == [c EXCEPT !.words = words, !.currentIndex = 0,
                            !.isFlipped = FALSE]
    IN  IF Len(words) > 0 THEN DisplayCard(loaded, 0) ELSE loaded

\* flipCard
FlipCard(c) == [c EXCEPT !.isFlipped = ~c.isFlipped, !.flipped = ~c.isFlipped]

\* prevCard that does not look at currentIndex
PrevCardUnguarded(c) ==
    DisplayCard([c EXCEPT !.currentIndex = @ - 1], c.currentIndex - 1)

\* prevCard
PrevCard(c) ==
    IF c.currentIndex > 0
        THEN DisplayCard([c EXCEPT !.currentIndex = @ - 1], c.currentIndex - 1)
        ELSE c

\* nextCard
NextCard(c) ==
    IF c.currentIndex < Len(c.words) - 1
        THEN DisplayCard([c EXCEPT !.currentIndex = @ + 1], c.currentIndex + 1)
        ELSE c

\* reset
ResetCards(c) ==
    LET front == [c EXCEPT !.currentIndex = 0, !.isFlipped = FALSE,
                           !.flipped = FALSE]
    IN  IF Len(c.words) > 0 THEN DisplayCard(front, 0) ELSE front

Abs(n) == IF n < 0 THEN -n ELSE n

\* handleTouchStart(e), e.changedTouches[0] at screen (x, y)
HandleTouchStart(c, x, y) ==
    [c EXCEPT !.touchStartX = x, !.touchStartY = y, !.isSwiping = FALSE,
              !.touch = "down"]

\* handleTouchMove(e)
HandleTouchMove(c, x, y) ==
    LET diffX == x - c.touchStartX
        diffY == Abs(y - c.touchStartY)
        moved == [c EXCEPT !.touchEndX = x, !.touchEndY = y,
                           !.touch = "moved"]
    IN  IF Abs(diffX) > 20 /\ diffY < 50
            THEN [moved EXCEPT !.isSwiping = TRUE,
                               !.swiping = IF diffX > 0 THEN "right"
                                           ELSE "left"]
            ELSE moved

\* handleTouchEnd(e)
HandleTouchEnd(c) ==
    LET diffX == c.touchEndX - c.touchStartX
        diffY == Abs(c.touchEndY - c.touchStartY)
        lifted == [c EXCEPT !.swiping = "none", !.touch = "none"]
        turned == IF Abs(diffX) > swipeThreshold /\ diffY < 50
                      THEN IF diffX > 0 THEN PrevCard(lifted)
                           ELSE NextCard(lifted)
                      ELSE lifted
    IN  [turned EXCEPT !.isSwiping = FALSE, !.touchEndX = 0, !.touchEndY = 0]

\* the click listener of the card (not on the speaker button)
ClickCard(c) == IF ~c.isSwiping THEN FlipCard(c) ELSE c

\* word lists showFlashcards may pass, screen coordinates of a touch
CardWords == {<<>>, <<1>>, <<1, 2, 3>>}
ScreenXs == {10, 40, 200}
ScreenYs == {10, 100}

\* FlashcardManager.fn(arg) was called and left the manager and the card
\* element as in c
CardCall(fn, arg, c) ==
    /\ card' = c
    /\ Returns(fn, arg, Nothing)
    /\ UNCHANGED <<clock, streakData, learnedWords, adminPassword>>
    /\ UNCHANGED <<apiKey, binId, localWords>>
    /\ UNCHANGED <<remote, nextId, call, lastPut, raced, ui, zone, app, admin>>

\* the calls and the events of the card while no touch is in progress
CardEvent ==
    /\ card.touch = "none"
    /\ \/ \E words \in CardWords :
              CardCall("loadWords", <<words>>, LoadWords(card, words))
       \/ CardCall("flipCard", <<>>, ClickCard(card))
       \/ CardCall("prevCard", <<>>, PrevCard(card))
       \/ CardCall("nextCard", <<>>, NextCard(card))
       \/ CardCall("reset", <<>>, ResetCards(card))

\* a touch on the card: it starts, it may move, it ends
TouchStart ==
    /\ card.touch = "none"
    /\ \E x \in ScreenXs, y \in ScreenYs :
           CardCall("handleTouchStart", <<x, y>>, HandleTouchStart(card, x, y))

TouchMove ==
    /\ card.touch # "none"
    /\ \E x \in ScreenXs, y \in ScreenYs :
           CardCall("handleTouchMove", <<x, y>>, HandleTouchMove(card, x, y))

\* sync.arg tells whether the touch had moved
TouchEnd ==
    /\ card.touch # "none"
    /\ CardCall("handleTouchEnd", <<card.touch>>, HandleTouchEnd(card))

NextCards == CardEvent \/ TouchStart \/ TouchMove \/ TouchEnd

SpecCards == Init /\ [][NextCards]_vars

(***************************************************************************)
(* AdminApp: the login page and the session.  The dashboard, once shown,   *)
(* loads its data by the calls of updateStats and loadWordList.            *)
(***************************************************************************)
\* nothing of the admin page is in flight
AdminIdle == \A q \in Procs : ui[q].stage = "idle" /\ call[q].pc = "idle"

\* showDashboard, then loadDashboardData up to the first await of
\* updateStats: the indicator says whether credentials are stored
ShowDashboard(p, a) ==
    /\ admin' = [a EXCEPT !.page = "dashboard",
                          !.status = IF apiKey # "" /\ binId # ""
                                         THEN "connected" ELSE "disconnected"]
    /\ AwaitCall(p, [NoOp EXCEPT !.kind = "count", !.dateString = FormDate],
                 [ui EXCEPT ![p].stage = "count"])
    /\ UNCHANGED <<zone, app, card>>

\* a handler of the login page that makes no call
StayOut(a) ==
    /\ admin' = a
    /\ UNCHANGED <<remote, apiKey, binId, localWords, nextId, call, lastPut,
                   raced, ui, zone, app, card>>
    /\ UNCHANGED localVars

\* AdminApp.init: the page is loaded, or loaded again in the same session
AdminInit(p) ==
    /\ AdminIdle
    /\ p = "p1"
    /\ LET a == [NewAdmin(NowAt(clock, zone)) EXCEPT
                     !.loggedIn = admin.loggedIn]
       IN  IF a.loggedIn
               THEN ShowDashboard(p, a)
               ELSE StayOut([a EXCEPT !.page = "login"])

AcceptsAny(password) == TRUE

\* if (StorageManager.verifyPassword(password))
Accepts(password) == VerifyPassword(password)

\* handleLogin: the password typed is submitted; sessionStorage.setItem
\* throws when the quota is exceeded, and the handler ends there
HandleLogin(p) ==
    /\ admin.page = "login"
    /\ ui[p].stage = "idle" /\ call[p].pc = "idle"
    /\ \E password \in Passwords, stored \in BOOLEAN :
           LET a == [admin EXCEPT !.entered = password]
           IN  IF Accepts(password)
                   THEN IF stored
                            THEN ShowDashboard(p,
                                     [a EXCEPT !.loggedIn = TRUE,
                                               !.error = FALSE])
                            ELSE StayOut(a)
                   ELSE /\ stored
                        /\ StayOut([a EXCEPT !.error = TRUE])

\* handleLogout
HandleLogout ==
    /\ admin.page = "dashboard"
    /\ StayOut([admin EXCEPT !.loggedIn = FALSE, !.page = "login",
                             !.entered = ""])

\* AdminApp.navigateDate(direction): newDate is compared with today's
\* local midnight; updateStats() and loadWordList() are both called, each
\* runs up to its first await
AdminNavigateDate ==
    /\ admin.page = "dashboard"
    /\ AdminIdle
    /\ \E direction \in {-1, 1} :
           LET newDate == admin.currentDate + DayHours * direction
               now == NowAt(clock, zone)
               a == [admin EXCEPT !.asked = direction]
               Begun(q, kind) ==
                   FetchAllWords(NewFrame(q,
                       [NoOp EXCEPT !.kind = kind,
                                    !.dateString = GetDateString(newDate)]))
           IN  /\ LocalDay(newDate, zone) >= LocalDay(now, zone) - MaxBack
               /\ IF newDate > SetHoursZero(now, zone)
                      THEN StayOut(a)
                      ELSE /\ admin' = [a EXCEPT !.currentDate = newDate]
                           /\ call' = [q \in Procs |->
                                         IF q = "p1"
                                             THEN Begun(q, "count").frame
                                             ELSE Begun(q, "byDate").frame]
                           /\ ui' = [q \in Procs |->
                                       [ui[q] EXCEPT
                                           !.stage = IF q = "p1" THEN "count"
                                                     ELSE "list",
                                           !.next = "end"]]
                           /\ lastPut' = "none"
                           /\ UNCHANGED <<remote, apiKey, binId, localWords,
                                          nextId, raced, zone, app, card>>
                           /\ UNCHANGED localVars

\* the session of one admin page
NextLogin ==
    \/ HandleLogout
    \/ AdminNavigateDate
    \/ \E p \in Procs :
        \/ AdminInit(p)
        \/ HandleLogin(p)
        \/ UpdateStatsCounted(p)
        \/ UpdateStatsTotalled(p)
        \/ LoadWordListLoaded(p)
        \/ GetOk(p)
        \/ GetFail(p)

\* the admin page is about to be loaded in a new session
InitLogin == InitDashboard([p \in Procs |-> IdlePage(NoScreen)])

SpecLogin == InitLogin /\ [][NextLogin]_vars

(***************************************************************************)
(* App, the main page: the words of the selected date, the navigation      *)
(* between dates, the connection test of the settings.                     *)
(***************************************************************************)
\* the collection of the main page: a word of yesterday, two of today
Library ==
    LET w1 == NewWord(FormWordData, <<>>, 1, Now)
        w2 == NewWord([FormWordData EXCEPT !.date = Today], <<w1>>, 2, Now)
        w3 == NewWord([FormWordData EXCEPT !.date = Today, !.english = "owl"],
                      <<w1, w2>>, 3, Now)
    IN  <<w1, w2, w3>>

\* when and where the page is opened: at noon in UTC, at 21:00 UTC six
\* hours east (03:00 of the next local day), at 03:00 UTC six hours west
\* (21:00 of the local day before)
Zones ==
    { Noon, [hour |-> 21, offset |-> 6], [hour |-> 3, offset |-> -6] }

\* showEmptyState or showFlashcards(words), then showLoading(false)
ShowWords(a, words) ==
    [a EXCEPT !.view = IF words = <<>> THEN "empty" ELSE "cards",
              !.isLoading = FALSE, !.loading = FALSE]

\* App.init has run to its end: the streak is counted, today's words are
\* fetched and displayed; with a bin or without one
InitApp ==
    /\ \E bin \in BinIds :
           /\ binId = bin
           /\ apiKey = IF bin = "" THEN "" ELSE "key"
    /\ remote = Document(Library)
    /\ localWords = Library
    /\ nextId = Len(Library) + 1
    /\ call = [p \in Procs |-> IdleFrame]
    /\ lastPut = "none"
    /\ raced = FALSE
    /\ ui = OwnPages(NoScreen)
    /\ clock = FirstDay
    /\ streakData = << [currentStreak |-> 1, lastActiveDate |-> FirstDay] >>
    /\ learnedWords = <<>>
    /\ adminPassword = <<>>
    /\ sync = NoSync
    /\ \E z \in Zones :
           LET t == NowAt(FirstDay, z)
               words == FilterByDate(Library, GetDateString(t))
           IN  /\ zone = z
               /\ app = ShowWords(NewApp(t), words)
               /\ card = LoadWords(NoCards, words)
               /\ admin = NewAdmin(t)

\* an event is handled once the continuations of the calls that have
\* settled have run
NoneSettled == \A q \in Procs : call[q].pc # "done"

\* a handler of the main page ends without a call
AppOnly(a) ==
    /\ app' = a
    /\ UNCHANGED <<remote, apiKey, binId, localWords, nextId, call, lastPut,
                   raced, ui, zone, card, admin>>
    /\ UNCHANGED localVars

\* the frame of run p is gone
AppReturn(p, a, c) ==
    /\ app' = [a EXCEPT !.run[p] = "idle"]
    /\ card' = c
    /\ call' = [call EXCEPT ![p] = IdleFrame]
    /\ lastPut' = IF lastPut = p THEN "none" ELSE lastPut
    /\ UNCHANGED <<remote, apiKey, binId, localWords, nextId, raced, ui,
                   zone, admin>>
    /\ UNCHANGED localVars

\* loadWordsForDate(dateString) up to await fetchWordsByDate: showLoading(true)
LoadWordsForDate(p, dateString, a) ==
    /\ ApplyCall(p, FetchAllWords(NewFrame(p, [NoOp EXCEPT
                                                  !.kind = "byDate",
                                                  !.dateString = dateString])),
                 remote, IF lastPut = p THEN "none" ELSE lastPut, TRUE)
    /\ app' = [a EXCEPT !.isLoading = TRUE, !.loading = TRUE,
                        !.view = "none", !.run[p] = "load"]
    /\ UNCHANGED <<ui, zone, card, admin>>

\* loadWordsForDate from the words fetched (or the catch) to its end
LoadWordsForDateLoaded(p) ==
    /\ app.run[p] = "load"
    /\ call[p].pc = "done"
    /\ LET threw == call[p].ret.t = "throw"
           words == IF threw
                        THEN FilterByDate(localWords, call[p].op.dateString)
                        ELSE call[p].ret.v
       IN  AppReturn(p, ShowWords([app EXCEPT !.toast = IF threw THEN "failed"
                                                        ELSE @], words),
                     IF words = <<>> THEN card ELSE LoadWords(card, words))

\* navigateDate(direction): the new date at local midnight, compared with
\* today's local midnight
NavigateDateAllowed(newDate, today) ==
    SetHoursZero(newDate, zone) <= SetHoursZero(today, zone)

\* App.navigateDate(direction)
NavigateDate(p) ==
    /\ app.run[p] = "idle"
    /\ call[p].pc = "idle"
    /\ NoneSettled
    /\ \E direction \in {-1, 1} :
           LET moved == app.currentDate + DayHours * direction
               newDate == SetHoursZero(moved, zone)
               today == NowAt(clock, zone)
               a == [app EXCEPT !.asked = direction]
           IN  /\ LocalDay(moved, zone) >= LocalDay(today, zone) - MaxBack
               /\ IF NavigateDateAllowed(moved, today)
                      THEN LoadWordsForDate(p, GetDateString(newDate),
                               [a EXCEPT !.currentDate = newDate])
                      ELSE AppOnly(a)

\* App.testConnection up to await ApiManager.testConnection(): the
\* credentials typed are saved (setItem may throw at either key)
AppTestConnection(p) ==
    /\ app.run[p] = "idle"
    /\ call[p].pc = "idle"
    /\ NoneSettled
    /\ ~app.testing
    /\ \E key \in ApiKeys, bin \in BinIds, written \in 0..2 :
           IF key = "" \/ bin = ""
               THEN /\ written = 2
                    /\ AppOnly([app EXCEPT !.toast = "enter"])
               ELSE /\ apiKey' = IF written >= 1 THEN key ELSE apiKey
                    /\ binId' = IF written = 2 THEN bin ELSE binId
                    /\ ApplyFrame(p, TestConnectionOf(
                                         NewFrame(p, [NoOp EXCEPT
                                                         !.kind = "test"]),
                                         binId'),
                                  remote,
                                  IF lastPut = p THEN "none" ELSE lastPut,
                                  TRUE)
                    /\ app' = [app EXCEPT !.testing = TRUE, !.run[p] = "test",
                                          !.saved = <<apiKey, binId>>]
                    /\ UNCHANGED <<ui, zone, card, admin>>

\* updateConnectionStatus(connected)
UpdateConnectionStatus(connected) ==
    IF connected \/ (apiKey # "" /\ binId # "")
        THEN "connected" ELSE "disconnected"

\* App.testConnection after ApiManager.testConnection()
AppTestConnectionTested(p) ==
    /\ app.run[p] = "test"
    /\ call[p].pc = "done"
    /\ LET success == call[p].ret.v
       IN  AppReturn(p, [app EXCEPT !.testing = FALSE,
                                    !.status = UpdateConnectionStatus(success),
                                    !.toast = IF success THEN "success"
                                              ELSE "failed"],
                     card)

NextApp ==
    \E p \in Procs :
        \/ NavigateDate(p)
        \/ LoadWordsForDateLoaded(p)
        \/ AppTestConnection(p)
        \/ AppTestConnectionTested(p)
        \/ GetOk(p)
        \/ GetFail(p)

SpecApp == InitApp /\ [][NextApp]_vars

(***************************************************************************)
(* Properties.                                                             *)
(***************************************************************************)
Ids(ws) == {ws[i].id : i \in 1..Len(ws)}

WordNumbers(ws, d) ==
    LET ofDate == FilterByDate(ws, d)
    IN  {ofDate[i].wordNumber : i \in 1..Len(ofDate)}

\* the words of each date are numbered 1..k
Contiguous(ws) ==
    \A d \in Dates : WordNumbers(ws, d) = 1..Len(FilterByDate(ws, d))

\* C1: after any sequence of addWord, updateWord and deleteWord from the
\* empty collection, the words of every date carry exactly the numbers
\* 1..k, in the bin and in the cache.
C1_WordNumbersContiguous ==
    /\ Contiguous(RecordWords(remote))
    /\ Contiguous(localWords)

\* fetchAllWords has returned to its caller and the caller has not saved yet
FetchReturned(f) ==
    /\ f.op.kind \in FetchKinds
    /\ f.out.GET # "none"
    /\ \/ f.pc = "PUT"
       \/ f.pc = "done" /\ f.out.PUT = "none"

\* C2: with a bin id, fetchAllWords returns the word array of the response
\* when an attempt of the GET succeeded and the cached words when all
\* attempts failed; it returns a collection and never throws.
C2_FetchAllWordsResult ==
    \A p \in Procs :
        LET f == call[p]
        IN  /\ FetchReturned(f) =>
                   f.fetched = IF f.out.GET = "ok"
                                   THEN RecordWords(remote)
                                   ELSE localWords
            /\ (f.pc = "done" /\ f.op.kind = "fetchAll") =>
                   f.ret = Words(f.fetched)

C2_Witness ==
    \E p \in Procs :
        /\ call[p].pc = "done"
        /\ call[p].op.kind = "fetchAll"
        /\ call[p].out.GET = "fail"
        /\ call[p].fetched # <<>>
        /\ call[p].fetched # RecordWords(remote)

\* the attempts of the pending request, and what the caller made of a
\* request that failed
AttemptsInv ==
    \A p \in Procs :
        LET f == call[p]
        IN  /\ f.sent <= Retries + 1
            /\ f.pc \in Methods =>
                   /\ f.sent >= 1
                   /\ f.out[f.pc] = IF f.sent = 1 THEN "none" ELSE "fail"
            /\ f.pc = "done" =>
                   /\ f.out.PUT \in {"fail", "abort"} => ~f.saveOk
                   /\ f.out.POST \in {"fail", "abort"} => f.ret.t = "throw"
                   /\ (f.op.kind = "test" /\ f.out.GET \in {"fail", "abort"})
                          => f.ret = Bool(FALSE)

\* a request ends with a success, a cancellation, or the failure of its
\* last attempt
AttemptsStep ==
    \A p \in Procs :
        LET f == call[p]
            g == call'[p]
        IN  (f.pc \in Methods /\ g.pc # f.pc) =>
                \/ g.out[f.pc] \in {"ok", "abort"}
                \/ g.out[f.pc] = "fail" /\ f.sent = Retries + 1

\* C3: a request makes at most Retries + 1 attempts, a further attempt only
\* after the one before failed, none after a success, and its failure
\* reaches the caller once every attempt has failed.
C3_RetryBudget == []AttemptsInv /\ [][AttemptsStep]_vars

C3_Witness ==
    \E p \in Procs :
        /\ call[p].pc \in Methods
        /\ call[p].sent = Retries + 1

Begins(p) ==
    \/ call[p].pc = "idle" /\ call'[p].pc # "idle"
    \/ /\ call[p].pc = "done"
       /\ call'[p].pc # "idle"
       /\ call'[p].op.kind # call[p].op.kind

Saves(f) == f.op.kind \in {"add", "update", "delete"} /\ f.ret.t # "throw"

NoCredentialsStep(p) ==
    LET g == call'[p]
    IN  (Begins(p) /\ apiKey = "" /\ binId = ""
                   /\ g.op.kind \in FetchKinds) =>
            /\ g.pc = "done"
            /\ g.sent = 0
            /\ g.out = NoOut
            /\ g.fetched = localWords
            /\ remote' = remote
            /\ g.op.kind = "fetchAll" => g.ret = Words(localWords)
            /\ IF Saves(g)
                   THEN localWords' = g.words /\ g.saveOk
                   ELSE localWords' = localWords

C6_NoRequestWithoutCredentials ==
    (apiKey = "" \/ binId = "") =>
        \A p \in Procs :
            call[p].op.kind \in FetchKinds => call[p].pc \notin Methods

\* C7: two addWord calls that both fetched before either saved both return
\* a Word with an id of its own and neither throws; the bin never holds
\* both new words, and when both PUTs succeeded it holds the collection of
\* the later PUT, with the new word of that call and without the other.
C7_LostUpdate ==
    (raced /\ \A p \in Procs : call[p].pc = "done") =>
        LET a == call["p1"]
            b == call["p2"]
            inBin == Ids(RecordWords(remote))
        IN  /\ a.ret.t = "word"
            /\ b.ret.t = "word"
            /\ a.ret.v.id # b.ret.v.id
            /\ ~(a.ret.v.id \in inBin /\ b.ret.v.id \in inBin)
            /\ (a.saveOk /\ b.saveOk) =>
                   /\ lastPut \in Procs
                   /\ remote = Document(call[lastPut].words)
                   /\ \A p \in Procs :
                          call[p].ret.v.id \in inBin <=> p = lastPut

C7_Witness ==
    /\ raced
    /\ \A p \in Procs : call[p].pc = "done" /\ call[p].saveOk
    /\ Len(RecordWords(remote)) = 1

\* C8: a fetchWordsByDate(date) made right after addWord returned a Word of
\* that date returns a list that holds that Word, lists normalised, however
\* the PUT of the add and the GET of the read ended.
C8_AddThenWordsByDate ==
    \A p \in Procs :
        LET f == call[p]
        IN  (f.pc = "done" /\ f.op.kind = "byDate" /\ f.ctx.kind = "add") =>
                /\ f.ret.t = "words"
                /\ \E i \in 1..Len(f.ret.v) : f.ret.v[i] = f.ctx.word

\* C9: addWord with date d on a collection with n words of d returns a Word
\* numbered n + 1 and saves the collection with that Word appended; a
\* getTotalWordCount right after it is one more than the one right before.
C9_AddWordNumberAndCount ==
    \A p \in Procs :
        LET f == call[p]
            d == Get(f.op.wordData, "date")
        IN  /\ (f.pc = "done" /\ f.op.kind = "add" /\ f.ret.t = "word"
                              /\ d \in Dates) =>
                   /\ f.ret.v.wordNumber = Len(FilterByDate(f.fetched, d)) + 1
                   /\ f.words = Append(f.fetched, f.ret.v)
            /\ (f.pc = "done" /\ f.op.kind = "total" /\ f.ctx.kind = "add"
                              /\ f.ctx.known /\ f.ctx.date \in Dates) =>
                   f.ret.v = f.ctx.n + 1

\* new is old without the word of the id: the other words in their order,
\* those of its date numbered 1..k, those of other dates as they were
DeleteRelation(old, new, id) ==
    LET i == CHOOSE j \in 1..Len(old) : old[j].id = id
        d == old[i].date
        At(j) == IF j < i THEN old[j] ELSE old[j + 1]
        NumberAt(j) == Cardinality({k \in 1..j : At(k).date = d})
    IN  /\ Len(new) = Len(old) - 1
        /\ \A j \in 1..Len(new) :
               new[j] = IF At(j).date = d
                            THEN [At(j) EXCEPT !.wordNumber = NumberAt(j)]
                            ELSE At(j)

\* C10: deleteWord(id) of a word the collection holds saves the collection
\* without exactly that word: the rest keeps its order, the words left of
\* its date are numbered 1..k, the words of other dates are unchanged; it
\* throws only when no word has the id.
C10_DeleteWord ==
    \A p \in Procs :
        LET f == call[p]
        IN  f.op.kind = "delete" =>
                /\ (f.pc = "PUT" \/ (f.pc = "done" /\ f.ret = Bool(TRUE))) =>
                       /\ f.op.wordId \in Ids(f.fetched)
                       /\ DeleteRelation(f.fetched, f.words, f.op.wordId)
                /\ (f.pc = "done" /\ f.ret.t = "throw") =>
                       f.op.wordId \notin Ids(f.fetched)

C10_Witness ==
    \E p \in Procs :
        LET f == call[p]
        IN  /\ f.pc = "done"
            /\ f.op.kind = "delete"
            /\ f.ret = Bool(TRUE)
            /\ localWords = f.words
            /\ Len(f.words) = 2
            /\ f.words[1].date # f.words[2].date
            /\ f.words[1].id = f.fetched[2].id
            /\ f.words[1].wordNumber # f.fetched[2].wordNumber

\* updateWord or deleteWord has fetched a collection in which no word has
\* the id it was called with
UnknownId(f) ==
    /\ f.op.kind \in {"update", "delete"}
    /\ f.pc \in {"PUT", "done"}
    /\ f.op.wordId \notin Ids(f.fetched)

NotFoundInv ==
    \A p \in Procs :
        LET f == call[p]
        IN  UnknownId(f) =>
                /\ f.pc = "done"
                /\ f.ret = Throw("Word not found")
                /\ f.out.PUT = "none"
                /\ f.words = <<>>

\* the bin changes only when a PUT of a call that found its word succeeds
NotFoundStep ==
    remote' # remote =>
        \E p \in Procs :
            /\ call[p].pc = "PUT"
            /\ call'[p].out.PUT = "ok"
            /\ ~UnknownId(call'[p])

\* C11: updateWord and deleteWord called with an id that no fetched word
\* has throw 'Word not found', call no saveAllWords (no PUT is sent) and
\* leave the bin, and so its length, as it was.
C11_NotFound == []NotFoundInv /\ [][NotFoundStep]_vars

C11_Witness ==
    \E p \in Procs :
        /\ UnknownId(call[p])
        /\ call[p].op.kind = "update"
        /\ call[p].out.GET = "ok"
        /\ Len(RecordWords(remote)) = 2

\* updateWord has found its word: the index of the word it replaces
Found(f) ==
    /\ f.op.kind = "update"
    /\ f.pc \in {"PUT", "done"}
    /\ f.op.wordId \in Ids(f.fetched)

FirstWith(ws, id) ==
    CHOOSE i \in 1..Len(ws) :
        /\ ws[i].id = id
        /\ \A j \in 1..(i - 1) : ws[j].id # id

\* C12: the word that updateWord saves has the id, the date and the
\* createdAt of the word it replaces, whatever the patch holds.
C12_UpdateKeepsIdentity ==
    \A p \in Procs :
        LET f == call[p]
            i == FirstWith(f.fetched, f.op.wordId)
        IN  Found(f) =>
                /\ f.words[i].id = f.fetched[i].id
                /\ f.words[i].date = f.fetched[i].date
                /\ f.words[i].createdAt = f.fetched[i].createdAt

\* the fields of new that the patch does not hold, but for the exempt ones,
\* are fields of old with the value they had
FieldsKept(old, new, patch, exempt) ==
    \A fld \in DOMAIN new \ (DOMAIN patch \cup exempt) :
        fld \in DOMAIN old /\ new[fld] = old[fld]

\* the collection updateWord saves, against the one it fetched
UpdateFrame(f, exempt) ==
    LET i == FirstWith(f.fetched, f.op.wordId)
        old == f.fetched[i]
        new == f.words[i]
        patch == f.op.updates
    IN  /\ Len(f.words) = Len(f.fetched)
        /\ \A j \in 1..Len(f.words) : j # i => f.words[j] = f.fetched[j]
        /\ FieldsKept(old, new, patch, exempt)
        /\ \A fld \in ListFields \cap DOMAIN patch :
               patch[fld] = Str(<<"x", ",", "y">>) =>
                   new[fld] = << <<"x">>, <<"y">> >>

UniqueIds(ws) ==
    \A i \in 1..Len(ws), j \in 1..Len(ws) : i # j => ws[i].id # ws[j].id

\* C14: after any sequence of addWord, updateWord and deleteWord, no two
\* words of the collection have the same id, in the bin and in the cache.
C14_UniqueIds ==
    /\ UniqueIds(RecordWords(remote))
    /\ UniqueIds(localWords)

\* the type of what each operation resolves to
Resolves(kind) ==
    CASE kind = "add" -> "word"
      [] kind = "update" -> "word"
      [] kind \in {"delete", "limit"} -> "boolean"
      [] kind \in {"fetchAll", "byDate"} -> "words"
      [] kind \in {"count", "total"} -> "number"

\* C15: the word operations settle with a result however their requests
\* ended, addWord with the new Word even when its save failed; the only
\* error they throw is 'Word not found', of updateWord and deleteWord
\* called with an id that no fetched word has.
C15_OnlyNotFoundIsThrown ==
    \A p \in Procs :
        LET f == call[p]
        IN  (f.pc = "done" /\ f.op.kind \in FetchKinds) =>
                IF f.op.kind \in {"update", "delete"}
                       /\ f.op.wordId \notin Ids(f.fetched)
                    THEN f.ret = Throw("Word not found")
                    ELSE f.ret.t = Resolves(f.op.kind)

C15_Witness ==
    \E p \in Procs :
        /\ call[p].pc = "done"
        /\ call[p].op.kind = "add"
        /\ call[p].out.GET = "fail"
        /\ call[p].out.PUT = "fail"
        /\ call[p].ret.t = "word"
        /\ call[p].ret.v.id \notin Ids(RecordWords(remote))

\* the step in which the GET of fetchAllWords ends
FetchEnds(p) ==
    /\ call[p].op.kind \in FetchKinds
    /\ call[p].pc = "GET"
    /\ call'[p].pc # "GET"

FetchCacheStep(p) ==
    FetchEnds(p) =>
        IF call'[p].out.GET = "ok"
            THEN /\ localWords' = RecordWords(remote)
                 /\ localWords' = call'[p].fetched
                 /\ "words" \notin DOMAIN remote => localWords' = <<>>
            ELSE localWords' = localWords

C18_AbortIsNotRetried ==
    \A p \in Procs :
        LET f == call[p]
        IN  /\ f.pc \in Methods => f.out[f.pc] # "abort"
            /\ (f.pc = "done" /\ f.out.PUT = "abort") => ~f.saveOk
            /\ (f.pc = "done" /\ f.out.POST = "abort") => f.ret.t = "throw"
            /\ (f.pc = "done" /\ f.out.GET = "abort"
                               /\ f.op.kind = "test") => f.ret = Bool(FALSE)
            /\ (FetchReturned(f) /\ f.out.GET = "abort") =>
                   f.fetched = localWords

C18_Witness ==
    \E p \in Procs :
        /\ call[p].pc = "done"
        /\ call[p].out.PUT = "abort"
        /\ call[p].retries = Retries
        /\ ~call[p].saveOk

\* the words the form's date holds in a collection
CountOf(ws) == Len(FilterByDate(ws, FormDate))

\* the write of the add of tab p failed, after all its retries
WriteFailed(p) == ui[p].wrote = "failed"

WriteFailureShown ==
    \A p \in Procs : WriteFailed(p) => ui[p].toast = "failed"

ScreenKeptStep ==
    \A p \in Procs : ui'[p].wrote = "failed" => ui'[p].shown = ui[p].shown

\* C16: when the remote write of an add fails after all its retries, the
\* page shows the failure notification and not the success one, and the
\* word list and the statistics it showed before stay as they were.
C16_WriteFailureNotified == []WriteFailureShown /\ [][ScreenKeptStep]_vars

\* the limit check of the submission of tab p has settled on a date that
\* holds the limit, in what it fetched or in the bin
FoundFull(p) ==
    /\ ui[p].stage = "limit"
    /\ call[p].pc = "done"
    /\ \/ CountOf(call[p].fetched) >= DAILY_LIMIT
       \/ CountOf(RecordWords(remote)) >= DAILY_LIMIT

RefusedStep ==
    \A p \in Procs :
        FoundFull(p) =>
            /\ ui'[p].stage = "idle"
            /\ ui'[p].toast = "limit"
            /\ \A q \in Procs : call'[q].pc \notin {"PUT", "POST"}
            /\ UNCHANGED <<remote, localWords, nextId>>

WithinLimit ==
    /\ CountOf(RecordWords(remote)) <= DAILY_LIMIT
    /\ CountOf(localWords) <= DAILY_LIMIT

CheckedStep ==
    \A p \in Procs :
        ui'[p].stage = "add" /\ ui[p].stage # "add" =>
            /\ ui[p].stage = "limit"
            /\ CountOf(call[p].fetched) < DAILY_LIMIT

\* C20: the limit is checked again at every submission but not enforced
\* atomically: every add of the form follows a check of its own tab that
\* read fewer words than the limit, and yet two tabs can both pass the
\* check at limit - 1 words before either writes, both adds complete and
\* the date holds limit + 1 words.
C20_LimitRace == [][CheckedStep]_vars

C20_Witness ==
    /\ nextId = DAILY_LIMIT + 2
    /\ CountOf(RecordWords(remote)) = DAILY_LIMIT + 1
    /\ \A p \in Procs :
           /\ ui[p].toast = "added"
           /\ ui[p].wrote = "ok"
           /\ ui[p].stage = "idle"
           /\ ui[p].shown.today = DAILY_LIMIT + 1

\* a step of updateStreak that changed the record or returned a new value
UpdateStreakStep ==
    /\ sync'.fn = "updateStreak"
    /\ <<sync, streakData>>' # <<sync, streakData>>

\* the record {count, lastActiveDate}
StreakRecord(count, day) == [currentStreak |-> count, lastActiveDate |-> day]

\* the record is stored; a setItem that throws leaves it as it was
Persisted(record) ==
    \/ GetStreakData' = record
    \/ streakData' = streakData

StreakRule ==
    LET today == clock
        data == GetStreakData
        count == data.currentStreak
    IN  IF data.lastActiveDate = today
            THEN /\ sync'.ret = Number(count)
                 /\ streakData' = streakData
        ELSE IF data.lastActiveDate = DayBefore(today)
            THEN /\ sync'.ret = Number(count + 1)
                 /\ Persisted(StreakRecord(count + 1, today))
        ELSE /\ sync'.ret = Number(1)
             /\ Persisted(StreakRecord(1, today))

\* C21: updateStreak, given today and the stored record: stored today, it
\* returns the count and changes nothing; stored yesterday, it stores and
\* returns count + 1; otherwise it stores and returns 1; the record it
\* stores has today as lastActiveDate.  (Storing is read as the store
\* does it: a write that fails is dropped.)
C21_StreakRule == [][UpdateStreakStep => StreakRule]_vars

\* a text with no blank at either end
Trimmed(e) == e # <<>> /\ e[1] # " " /\ e[Len(e)] # " "

\* a text of blanks only, or an empty one
Blank(e) == \A i \in 1..Len(e) : e[i] = " "

\* the field is empty or holds blanks only
BlankField(field) ==
    \/ field.t = "undefined"
    \/ field.t = "string" /\ Blank(field.v)
    \/ field.t = "array" /\ \A i \in 1..Len(field.v) : Blank(field.v[i])

\* C22: parseArrayField yields, for a comma-separated text and for a list
\* alike, a list whose entries are all non-empty and trimmed; an empty or
\* blank input yields the empty list.
C22_ParsedListTrimmed ==
    sync.fn = "parseArrayField" =>
        /\ \A i \in 1..Len(sync.ret.v) : Trimmed(sync.ret.v[i])
        /\ BlankField(sync.arg[1]) => sync.ret.v = <<>>

\* frame f belongs to a call of testConnection
Tests(f) == f.op.kind = "test"

\* a settled testConnection returned whether its read succeeded
TestResultInv ==
    \A p \in Procs :
        Tests(call[p]) /\ call[p].pc = "done" =>
            /\ call[p].ret.t = "boolean"
            /\ call[p].ret.v = (call[p].out.GET = "ok")
            /\ call[p].ret.v => binId # ""

\* without a bin id testConnection settles at once, with false; no step of
\* a testConnection changes the cache or the bin
TestStep ==
    \A p \in Procs :
        /\ Tests(call'[p]) /\ call[p].pc = "idle" /\ binId = "" =>
               /\ call'[p].pc = "done"
               /\ call'[p].ret = Bool(FALSE)
               /\ call'[p].out = NoOut
        /\ Tests(call'[p]) \/ Tests(call[p]) =>
               UNCHANGED <<localWords, remote>>

\* C23: testConnection returns true iff a bin id is configured and a read
\* of the bin succeeds within the retries; without a bin id it returns
\* false and sends nothing; it never throws and never changes the cache.
C23_TestConnection == []TestResultInv /\ [][TestStep]_vars

C23_Witness ==
    \E p \in Procs :
        /\ Tests(call[p])
        /\ call[p].pc = "done"
        /\ call[p].ret = Bool(TRUE)
        /\ call[p].retries = 0

\* C24: no learned status is stored in the bin: the words of the document
\* carry no isLearned field (the learned set of the device holds it).
C24_NoLearnedStatusInBin ==
    \A i \in 1..Len(RecordWords(remote)) :
        "isLearned" \notin DOMAIN RecordWords(remote)[i]

\* a step of markWordAsLearned, unmarkWordAsLearned or toggleLearned
LearnedStep ==
    /\ sync'.fn \in {"markWordAsLearned", "unmarkWordAsLearned",
                     "toggleLearned"}
    /\ <<sync, learnedWords>>' # <<sync, learnedWords>>

\* the step marks id, directly or by a toggle of a word not learned
Marks(id) ==
    /\ LearnedStep
    /\ sync'.arg = <<id>>
    /\ \/ sync'.fn = "markWordAsLearned"
       \/ sync'.fn = "toggleLearned" /\ ~IsWordLearned(id)

\* the step unmarks id, directly or by a toggle of a learned word
Unmarks(id) ==
    /\ LearnedStep
    /\ sync'.arg = <<id>>
    /\ \/ sync'.fn = "unmarkWordAsLearned"
       \/ sync'.fn = "toggleLearned" /\ IsWordLearned(id)

\* the learned status of the ids the step is not about stays, and so do
\* the bin, the cache and the calls
LearnedFrameStep ==
    /\ \A id \in LearnIds :
           ~Marks(id) /\ ~Unmarks(id) =>
               (IsWordLearned(id)' <=> IsWordLearned(id))
    /\ LearnedStep => UNCHANGED <<remote, localWords, call>>

\* the write of the step was dropped
Dropped == learnedWords' = learnedWords

LearnedStepStored ==
    /\ \A id \in LearnIds :
           /\ Marks(id) => IsWordLearned(id)' \/ Dropped
           /\ Unmarks(id) => ~IsWordLearned(id)' \/ Dropped
    /\ LearnedFrameStep

LearnedStepAsStated ==
    /\ \A id \in LearnIds :
           /\ Marks(id) => IsWordLearned(id)'
           /\ Unmarks(id) => ~IsWordLearned(id)'
    /\ LearnedFrameStep

\* C25 (amended): after any sequence of mark, unmark and toggle calls,
\* isWordLearned(id) is true iff the last such call on id whose write was
\* stored was a mark; the calls send no request and leave the cache and
\* the bin unchanged.
C25_LearnedSet == [][LearnedStepStored]_vars

\* C25 as stated: isWordLearned(id) is true iff the last such call on id
\* was a mark.
C25_LearnedSetAsStated == [][LearnedStepAsStated]_vars

C25_Witness ==
    /\ sync.fn = "toggleLearned"
    /\ sync.arg = <<1>>
    /\ learnedWords = <<2, 1>>

\* the operations of StorageManager that write to localStorage
Writers ==
    {"saveApiCredentials", "saveLocalWords", "markWordAsLearned",
     "unmarkWordAsLearned", "updateStreak", "setAdminPassword"}

\* C26: a write to localStorage that fails (quota exceeded) is caught in
\* every operation that writes - credentials, cached words, learned set,
\* streak data, password hash - and never reaches the caller as an
\* exception.
C26_WriteFailureCaught == sync.fn \in Writers => sync.ret.t # "throw"

\* the words of the date asked for, in what fetchAllWords returned
OfDateAsked(f) == FilterByDate(f.fetched, f.op.dateString)

\* C27: getWordCountForDate(d) is the number of words of date d, so 0 for
\* a date with no words, and isDailyLimitReached(d, L) is true iff that
\* number is at least L (L being 5 when left out); a read that succeeded
\* counted the words of the bin.
C27_CountAndLimit ==
    \A p \in Procs :
        call[p].pc = "done" =>
            /\ call[p].op.kind = "count" =>
                   call[p].ret = Number(Len(OfDateAsked(call[p])))
            /\ call[p].op.kind = "limit" =>
                   call[p].ret =
                       Bool(Len(OfDateAsked(call[p])) >= call[p].op.limit)
            /\ call[p].op.kind \in {"count", "limit"}
                   /\ call[p].out.GET = "ok" =>
                   call[p].fetched = RecordWords(remote)

C27_Witness ==
    \E p \in Procs :
        /\ call[p].pc = "done"
        /\ call[p].op.kind = "limit"
        /\ call[p].ret = Bool(TRUE)
        /\ call[p].out.GET = "ok"
        /\ Len(OfDateAsked(call[p])) = call[p].op.limit
        /\ Len(call[p].fetched) > call[p].op.limit

C27_WitnessNoWords ==
    \E p \in Procs :
        /\ call[p].pc = "done"
        /\ call[p].op.kind = "count"
        /\ call[p].ret = Number(0)
        /\ call[p].fetched # <<>>

\* the words carry the numbers 1, 2, .., k in the order of the list
NumberedInOrder(ws) == \A i \in 1..Len(ws) : ws[i].wordNumber = i

\* C28: after any sequence of addWord and deleteWord, fetchWordsByDate(d)
\* returns exactly the words of date d, in collection order, and their
\* wordNumber values are 1, 2, .., k in that order.
C28_WordsByDateNumbered ==
    \A p \in Procs :
        call[p].pc = "done" /\ call[p].op.kind = "byDate" =>
            /\ call[p].ret = Words(OfDateAsked(call[p]))
            /\ NumberedInOrder(call[p].ret.v)

\* addWord was called with no date in its input
Undated(f) == f.op.kind = "add" /\ Get(f.op.wordData, "date") = Undefined

\* C29: addWord called with no date stores the word under today's date
\* with wordNumber = (number of words of today's date) + 1.
C29_UndatedAddNumber ==
    \A p \in Procs :
        call[p].pc = "done" /\ Undated(call[p]) =>
            /\ call[p].ret.v.date = Today
            /\ call[p].ret.v.wordNumber =
                   Len(FilterByDate(call[p].fetched, Today)) + 1

\* the runs of handleAddWord whose addWord has a request outstanding
Adding ==
    {p \in Procs : ui[p].stage = "add" /\ call[p].pc \in {"GET", "PUT"}}

\* C30: within one admin panel, while a submission is being processed the
\* add button is disabled, so that a second submission cannot start a
\* second limit check or add: at most one add is outstanding at a time.
C30_OneSubmissionAtATime ==
    /\ Cardinality(Adding) <= 1
    /\ \A p \in Adding : ui[ui[p].tab].disabled

\* C34: whenever prevCard, nextCard, loadWords or reset displays another
\* card or another word set, the card shows its front (isFlipped is false,
\* the element has no class 'flipped'); and at all times isFlipped is true
\* exactly when the element has the class 'flipped'.
ShowsFront(c) == ~c.isFlipped /\ ~c.flipped

DisplaysAnother ==
    \/ sync'.fn \in {"loadWords", "reset"}
    \/ /\ sync'.fn \in {"prevCard", "nextCard"}
       /\ card'.currentIndex # card.currentIndex

C34_FrontOfNewCard ==
    /\ [](card.isFlipped <=> card.flipped)
    /\ [][DisplaysAnother => ShowsFront(card')]_vars

\* C35: currentIndex is never negative and, while there are words, below
\* words.length; prevCard at the first card and nextCard at the last card
\* change nothing.
IndexInRange ==
    /\ card.currentIndex >= 0
    /\ card.words # <<>> => card.currentIndex < Len(card.words)

AtTheEnds ==
    /\ sync'.fn = "prevCard" /\ card.currentIndex = 0 => card' = card
    /\ sync'.fn = "nextCard" /\ card.currentIndex = Len(card.words) - 1
           => card' = card

C35_IndexInRange == []IndexInRange /\ [][AtTheEnds]_vars

\* nextCard was called at the last of three cards: the card stays flipped,
\* which no displayCard would leave it
C35_Witness ==
    /\ sync.fn = "nextCard"
    /\ Len(card.words) = 3
    /\ card.currentIndex = 2
    /\ card.isFlipped

\* C36: a touch that ends without a touchmove since its start (a tap) does
\* not change the current card, wherever on the screen it is; a touch
\* changes the card only after a move of more than swipeThreshold
\* horizontally and less than 50 vertically.
TouchEnds == sync'.fn = "handleTouchEnd" /\ card.touch # "none"

SwipedFar ==
    /\ card.touch = "moved"
    /\ Abs(card.touchEndX - card.touchStartX) > swipeThreshold
    /\ Abs(card.touchEndY - card.touchStartY) < 50

TouchRule ==
    TouchEnds /\ card'.currentIndex # card.currentIndex => SwipedFar

C36_TapKeepsCard == [][TouchRule]_vars

\* C39: verifyPassword(q) is true exactly when q is the password set last
\* (the one whose hash is stored), the empty password included; while none
\* is stored, exactly when q is 'admin123'.
LastSet == {p \in Passwords : adminPassword = <<Btoa[p]>>}

C39_VerifyLastPassword ==
    sync.fn = "verifyPassword" =>
        sync.ret.v = IF adminPassword = <<>> THEN sync.arg[1] = "admin123"
                     ELSE sync.arg[1] \in LastSet

\* C40: the dashboard is displayed only while the session flag is set; a
\* login with a password that verifyPassword rejects neither sets the flag
\* nor shows the dashboard; logout clears the flag and shows the login page.
LoginStep == \E p \in Procs : HandleLogin(p)

SessionStep ==
    /\ LoginStep /\ ~VerifyPassword(admin'.entered)
           => admin'.loggedIn = admin.loggedIn /\ admin'.page = admin.page
    /\ HandleLogout => ~admin'.loggedIn /\ admin'.page = "login"

C40_DashboardNeedsSession ==
    /\ [](admin.page = "dashboard" => admin.loggedIn)
    /\ [][SessionStep]_vars

\* a login was refused after a logout
C40_Witness ==
    /\ admin.page = "login"
    /\ admin.error
    /\ admin.entered = "secret"
    /\ ~admin.loggedIn
    /\ \E p \in Procs : ui[p].stage # "idle"

\* C31: once every loadWordsForDate has completed, the flashcards shown are
\* the words of the selected date (of getDateString(currentDate)); and the
\* loading indicator is displayed as long as a load is outstanding.
Loading == {p \in Procs : app.run[p] = "load"}

CardsShown == IF app.view = "cards" THEN card.words ELSE <<>>

C31_OverlappingLoads ==
    /\ Loading = {} =>
           CardsShown = FilterByDate(Library, GetDateString(app.currentDate))
    /\ Loading # {} => app.loading

\* C32: after a connection test that failed the indicator shows 'Not
\* connected'; it shows 'Connected' after a test only if the test succeeded.
TestedStatus ==
    \A p \in Procs :
        AppTestConnectionTested(p) =>
            (app'.status = "connected" <=> call[p].ret.v)

C32_StatusAfterTest == [][TestedStatus]_vars

\* C33: after a connection test that failed, the stored key and bin id are
\* the ones that were stored before the test.
TestedCredentials ==
    \A p \in Procs :
        AppTestConnectionTested(p) /\ ~call[p].ret.v =>
            <<apiKey', binId'>> = app.saved

C33_TestKeepsCredentials == [][TestedCredentials]_vars

\* C38: the date string under which the words are loaded,
\* getDateString(currentDate), names the calendar day that is selected and
\* displayed, currentDate in local time.
C38_DateStringIsLocalDay ==
    GetDateString(app.currentDate) = DateName(LocalDay(app.currentDate, zone))

\* C37: navigateDate(direction) moves currentDate by direction days exactly
\* when the day it would reach is not after today, and leaves it unchanged
\* otherwise, in the main app and in the admin panel; currentDate is never
\* after today, and from yesterday navigateDate(+1) reaches today.
LocalToday == LocalDay(NowAt(clock, zone), zone)

Navigated(before, after, direction) ==
    IF LocalDay(before, zone) + direction <= LocalToday
        THEN LocalDay(after, zone) = LocalDay(before, zone) + direction
        ELSE after = before

NavigateStep ==
    /\ (\E p \in Procs : NavigateDate(p))
           => Navigated(app.currentDate, app'.currentDate, app'.asked)
    /\ AdminNavigateDate
           => Navigated(admin.currentDate, admin'.currentDate, admin'.asked)

NotAfterToday ==
    /\ LocalDay(app.currentDate, zone) <= LocalToday
    /\ LocalDay(admin.currentDate, zone) <= LocalToday

C37_NavigateDate == []NotAfterToday /\ [][NavigateStep]_vars

=============================================================================
